---- MODULE Spec2Model ----
(***************************************************************************)
(* Booking lifecycle of the churrasco marketplace app: the bookings table  *)
(* of the backend (schema, defaults and row-level-security policies), the  *)
(* professional bookings screen (loadBookings, updateBookingStatus,        *)
(* renderBookingCard) and the client bookings screen, as a state machine   *)
(* with every backend call split into request, execution at the store and  *)
(* resumption of the awaiting handler.                                     *)
(***************************************************************************)
EXTENDS Integers, Sequences, FiniteSets, TLC

VARIABLES
    bookingsTable,   \* public.bookings: booking id -> row
    servicesTable,   \* public.services: service id -> row
    profilesTable,   \* public.profiles: user id -> row
    net,             \* backend requests in flight (awaited promises)
    profile,         \* session -> useAuth().profile (Null until loaded)
    bookings,        \* session -> useState<Booking[]>
    loading,         \* session -> useState(true)
    consoleErrors,   \* session -> number of console.error calls
    alerts,          \* session -> number of Alert.alert calls
    now,             \* the clock new Date() reads: it advances with every backend call
    today,           \* the local calendar date new Date() gives
    tzWest,          \* the device's time zone is behind UTC
    analyticsData,   \* AnalyticsScreen: useState<AnalyticsData>
    selectedPeriod,  \* AnalyticsScreen: useState(selectedPeriod)
    services,        \* SearchScreen: useState<Service[]>
    filteredServices,\* SearchScreen: useState<Service[]>
    searchQuery,     \* SearchScreen: useState('')
    selectedFilters, \* SearchScreen: useState<string[]>
    stats,           \* ProfessionalHomeScreen: useState<DashboardStats>
    recentBookings,  \* ProfessionalHomeScreen: useState<RecentBooking[]>
    clientRender,    \* client BookingsScreen: the cards of each tab at the last render
    chartLabels,     \* AnalyticsScreen: the month labels under the bars at the last render
    photosTable,     \* public.professional_photos: the set of rows
    bucket,          \* storage bucket professional_photos: the set of object paths
    photos,          \* ProfessionalProfileScreen: useState<Photo[]>
    uploading,       \* ProfessionalProfileScreen: useState(false)
    photoCalls       \* ProfessionalProfileScreen: async handlers in progress

envVars == <<today, tzWest>>
analyticsVars == <<analyticsData, selectedPeriod>>
searchVars == <<services, filteredServices, searchQuery, selectedFilters>>
dashboardVars == <<stats, recentBookings>>
renderVars == <<clientRender, chartLabels>>
photoStore == <<photosTable, bucket>>
photoVars == <<photos, uploading, photoCalls>>

vars == <<bookingsTable, servicesTable, profilesTable, net, profile, bookings,
          loading, consoleErrors, alerts, now, envVars, analyticsVars, searchVars, dashboardVars,
                   renderVars, photoStore, photoVars>>

-----------------------------------------------------------------------------
(* Bounds of the model *)

NumBookings == 2
NumServices == 2
MaxInFlight == 2
MaxFailures == 1
MaxTime == 4
MaxRows == 2
MaxTitles == 6

Null == "null"

\* useAuth().profile before the profile is loaded, and an embedded row that is absent
NoProfile == [id |-> Null, user_type |-> Null, full_name |-> <<>>, phone |-> Null]
NoService == [title |-> <<>>, duration_hours |-> 0]

BookingIds == 1..NumBookings

-----------------------------------------------------------------------------
(* Schema *)

user_type == {"client", "professional"}

booking_status == {"pending", "confirmed", "cancelled", "completed"}

DefaultStatus == "pending"

\* text is a sequence of characters
Text(a, b) == <<a, b>>
NoText == <<>>

Users == {"proA", "proB", "cliX"}

UserType(u) == IF u = "cliX" THEN "client" ELSE "professional"

ServiceIds == 1..NumServices

ProfessionalOf(b) == IF b = 3 THEN "proB" ELSE "proA"

Date(y, m, d) == [year |-> y, month |-> m, day |-> d]

InitialProfile(u) ==
    [id |-> u, user_type |-> UserType(u),
     full_name |-> IF u = "proA" THEN Text("A", "b") ELSE Text("b", "a"),
     phone |-> Null]

InitialService(s) ==
    [id |-> s,
     professional_id |-> IF s = 1 THEN "proA" ELSE "proB",
     title |-> IF s = 1 THEN Text("a", "a") ELSE Text("B", "b"),
     description |-> Text("a", " "),
     location |-> IF s = 1 THEN Text("b", "b") ELSE Text("a", "B"),
     duration_hours |-> 4,
     max_guests |-> 50,
     price_from |-> IF s = 1 THEN 400 ELSE 900]

\* the rows the store holds when the sessions start: booking 1 has just been
\* requested (the column default), the others are past bookings
InitialBooking(b) ==
    [id |-> b,
     client_id |-> "cliX",
     professional_id |-> ProfessionalOf(b),
     service_id |-> IF ProfessionalOf(b) = "proA" THEN 1 ELSE 2,
     event_date |-> Date(2025, b, 10),
     event_time |-> "12:00",
     guests_count |-> 10 * b,
     location |-> "loc",
     status |-> IF b = 1 THEN DefaultStatus ELSE "completed",
     total_price |-> 100 * b,
     notes |-> Null,
     created_at |-> 0,
     updated_at |-> 0]

-----------------------------------------------------------------------------
(* Sessions: one app instance each, signed in as a user *)

ProSessions == {"p1", "p2"}
ClientSessions == {"c1"}
AnalyticsSessions == {"a1"}
SearchSessions == {"s1"}
DashboardSessions == {"d1"}
PhotoSessions == {"f1"}
Sessions ==
    ProSessions \cup ClientSessions \cup AnalyticsSessions \cup SearchSessions
        \cup DashboardSessions \cup PhotoSessions

UserOf(s) ==
    IF s \in ProSessions \cup AnalyticsSessions \cup DashboardSessions \cup PhotoSessions
    THEN "proA" ELSE "cliX"

-----------------------------------------------------------------------------
(* Row-level-security policies of public.bookings *)

BookingsSelectPolicy(uid, row) ==
    uid = row.client_id \/ uid = row.professional_id

BookingsUpdatePolicy(uid, row) ==
    uid = row.client_id \/ uid = row.professional_id

-----------------------------------------------------------------------------
(* The store's read and write of bookings, as the query builder issues them *)

DateBefore(a, b) ==
    \/ a.year < b.year
    \/ a.year = b.year /\ a.month < b.month
    \/ a.year = b.year /\ a.month = b.month /\ a.day < b.day

\* services ( title, duration_hours ): the embedded row of the referenced service
JoinService(row) ==
    IF row.service_id \in DOMAIN servicesTable
    THEN [title |-> servicesTable[row.service_id].title,
          duration_hours |-> servicesTable[row.service_id].duration_hours]
    ELSE NoService

\* profiles!<fkey> ( full_name, phone ): the embedded counterpart profile
JoinProfile(row, fkey) ==
    IF fkey # Null /\ row[fkey] \in DOMAIN profilesTable
    THEN [full_name |-> profilesTable[row[fkey]].full_name,
          phone |-> profilesTable[row[fkey]].phone]
    ELSE [full_name |-> <<>>, phone |-> Null]

Item(row, fkey) ==
    [id |-> row.id,
     client_id |-> row.client_id,
     professional_id |-> row.professional_id,
     service_id |-> row.service_id,
     event_date |-> row.event_date,
     event_time |-> row.event_time,
     guests_count |-> row.guests_count,
     location |-> row.location,
     status |-> row.status,
     total_price |-> row.total_price,
     notes |-> row.notes,
     created_at |-> row.created_at,
     updated_at |-> row.updated_at,
     services |-> JoinService(row),
     profiles |-> JoinProfile(row, fkey)]

\* select(...).eq(col, val) run as user uid, with .order('event_date', { ascending })
\* when the query has one; without it the rows come in the table's order
SelectBookings(uid, col, val, ascending, fkey) ==
    LET visible == SelectSeq(bookingsTable,
                       LAMBDA row : BookingsSelectPolicy(uid, row) /\ row[col] = val)
        items == [i \in 1..Len(visible) |-> Item(visible[i], fkey)]
    IN  CASE ascending = "true" ->
                SortSeq(items, LAMBDA a, b : DateBefore(a.event_date, b.event_date))
          [] ascending = "false" ->
                SortSeq(items, LAMBDA a, b : DateBefore(b.event_date, a.event_date))
          [] OTHER -> items

\* the same select with .order('created_at', { ascending: false }).limit(n)
SelectRecentBookings(uid, col, val, fkey, n) ==
    LET visible == SelectSeq(bookingsTable,
                       LAMBDA row : BookingsSelectPolicy(uid, row) /\ row[col] = val)
        items == [i \in 1..Len(visible) |-> Item(visible[i], fkey)]
        sorted == SortSeq(items, LAMBDA a, b : a.created_at > b.created_at)
    IN  SubSeq(sorted, 1, IF Len(sorted) < n THEN Len(sorted) ELSE n)

\* "Services are viewable by everyone."
ServicesSelectPolicy(uid, row) == TRUE

\* from('services').select('*, profiles ( full_name, avatar_url )')
SelectServices(uid) ==
    LET visible == SelectSeq(servicesTable, LAMBDA r : ServicesSelectPolicy(uid, r))
        row(s) == visible[s]
        joined(s) ==
            [id |-> row(s).id,
             title |-> row(s).title,
             description |-> row(s).description,
             location |-> row(s).location,
             price_from |-> row(s).price_from,
             max_guests |-> row(s).max_guests,
             profiles |->
                IF row(s).professional_id \in DOMAIN profilesTable
                THEN [present |-> TRUE,
                      full_name |-> profilesTable[row(s).professional_id].full_name]
                ELSE [present |-> FALSE, full_name |-> <<>>]]
    IN  [s \in 1..Len(visible) |-> joined(s)]

\* the update with the store checking the row's current status against the patch
UpdateBookingsGuarded(table, uid, patch, bookingId) ==
    [b \in DOMAIN table |->
        IF /\ table[b].id = bookingId /\ BookingsUpdatePolicy(uid, table[b])
           /\ \/ table[b].status = "pending" /\ patch.status \in {"confirmed", "cancelled"}
              \/ table[b].status = "confirmed" /\ patch.status \in {"completed", "cancelled"}
        THEN [table[b] EXCEPT !.status = patch.status,
                              !.updated_at = patch.updated_at]
        ELSE table[b]]

\* the update without its .eq('id', bookingId)
UpdateBookingsNoFilter(table, uid, patch, bookingId) ==
    [b \in DOMAIN table |->
        IF BookingsUpdatePolicy(uid, table[b])
        THEN [table[b] EXCEPT !.status = patch.status,
                              !.updated_at = patch.updated_at]
        ELSE table[b]]

\* update({ status, updated_at }).eq('id', bookingId) run as user uid
UpdateBookings(table, uid, patch, bookingId) ==
    [b \in DOMAIN table |->
        IF table[b].id = bookingId /\ BookingsUpdatePolicy(uid, table[b])
        THEN [table[b] EXCEPT !.status = patch.status,
                              !.updated_at = patch.updated_at]
        ELSE table[b]]

-----------------------------------------------------------------------------
(* Requests in flight.  A request carries the session that awaits it, the    *)
(* time it was issued at, which tells it from the others, and the function   *)
(* that issued it.                                                           *)

NoPatch == [status |-> Null, updated_at |-> 0]

\* a further backend call may be issued within the bounds of the model
HasRoom == Cardinality(net) < MaxInFlight /\ now < MaxTime

SelectRequest(s, slot, caller, col, val, ascending, fkey) ==
    [sess |-> s, n |-> slot, op |-> "select", table |-> "bookings",
     phase |-> "sent", caller |-> caller,
     col |-> col, val |-> val, ascending |-> ascending, fkey |-> fkey, limit |-> 0,
     id |-> 0, patch |-> NoPatch, data |-> <<>>, error |-> FALSE]

UpdateRequest(s, slot, bookingId, status, t) ==
    [sess |-> s, n |-> slot, op |-> "update", table |-> "bookings",
     phase |-> "sent", caller |-> "onPress",
     col |-> "id", val |-> Null, ascending |-> Null, fkey |-> Null, limit |-> 0,
     id |-> bookingId, patch |-> [status |-> status, updated_at |-> t],
     data |-> <<>>, error |-> FALSE]

RECURSIVE SumOver(_, _)
SumOver(S, f) ==
    IF S = {} THEN 0
    ELSE LET x == CHOOSE y \in S : TRUE IN f[x] + SumOver(S \ {x}, f)

\* failures so far: those already handled and those on their way back
Faults == SumOver(Sessions, consoleErrors) + Cardinality({r \in net : r.error})

MayFail == Faults < MaxFailures

-----------------------------------------------------------------------------
(* Professional bookings screen (ProfessionalBookingsScreen).  The active    *)
(* tab only selects which cards are drawn, so an action on a card or on the  *)
(* list takes the tab under which the user does it as a parameter: the user  *)
(* may switch to any tab before acting.                                      *)

ProTabs == {"pending", "confirmed", "all"}

\* const filteredBookings = bookings.filter(...), the cards drawn under a tab
ProFilteredBookings(s, tab) ==
    SelectSeq(bookings[s],
        LAMBDA booking : tab = "all" \/ booking.status = tab)

\* the card with Finalizar drawn on a pending item too
ProButtonsFinalizarOnPending(item) ==
    IF item.status = "pending" THEN {"Recusar", "Aceitar", "Finalizar"}
    ELSE IF item.status = "confirmed" THEN {"Finalizar"}
    ELSE {}

\* the buttons renderBookingCard draws for an item
ProButtons(item) ==
    IF item.status = "pending" THEN {"Recusar", "Aceitar"}
    ELSE IF item.status = "confirmed" THEN {"Finalizar"}
    ELSE {}

\* the status a button's onPress hands to updateBookingStatus
ProOnPress(button) ==
    CASE button = "Recusar" -> "cancelled"
      [] button = "Aceitar" -> "confirmed"
      [] button = "Finalizar" -> "completed"

\* loadBookings up to its await: the requests in flight once it has issued its query
ProLoadBookingsCall(s, prof, pending, slot, caller) ==
    IF prof = NoProfile THEN pending
    ELSE pending \cup
         {SelectRequest(s, slot, caller, "professional_id", prof.id, "true", "client_id")}

\* useEffect(() => { if (profile) loadBookings() }, [profile])
ProProfileLoaded(s) ==
    /\ s \in ProSessions
    /\ profile[s] = NoProfile
    /\ HasRoom
    /\ profile' = [profile EXCEPT ![s] = profilesTable[UserOf(s)]]
    /\ net' = ProLoadBookingsCall(s, profile'[s], net, now, "useEffect")
    /\ now' = now + 1
    /\ UNCHANGED <<bookingsTable, servicesTable, profilesTable, bookings, loading,
                   consoleErrors, alerts,
                   envVars, analyticsVars, searchVars, dashboardVars,
                   renderVars, photoStore, photoVars>>

\* FlatList onRefresh={loadBookings}; the list is drawn only when it is not empty
ProRefresh(s, tab) ==
    /\ s \in ProSessions
    /\ tab \in ProTabs
    /\ Len(ProFilteredBookings(s, tab)) > 0
    /\ HasRoom
    /\ net' = ProLoadBookingsCall(s, profile[s], net, now, "onRefresh")
    /\ now' = now + 1
    /\ UNCHANGED <<bookingsTable, servicesTable, profilesTable, profile, bookings,
                   loading, consoleErrors, alerts,
                   envVars, analyticsVars, searchVars, dashboardVars,
                   renderVars, photoStore, photoVars>>

\* updateBookingStatus up to its await: the write it issues
updateBookingStatus(s, bookingId, status) ==
    /\ net' = net \cup {UpdateRequest(s, now, bookingId, status, now)}
    /\ now' = now + 1

\* a press on a button of a drawn card: onPress={() => updateBookingStatus(item.id, ...)}
ProPressButton(s, tab, i, button) ==
    /\ s \in ProSessions
    /\ tab \in ProTabs
    /\ i \in 1..Len(ProFilteredBookings(s, tab))
    /\ button \in ProButtons(ProFilteredBookings(s, tab)[i])
    /\ HasRoom
    /\ updateBookingStatus(s, ProFilteredBookings(s, tab)[i].id, ProOnPress(button))
    /\ UNCHANGED <<bookingsTable, servicesTable, profilesTable, profile, bookings,
                   loading, consoleErrors, alerts,
                   envVars, analyticsVars, searchVars, dashboardVars,
                   renderVars, photoStore, photoVars>>

\* loadBookings resumed with { data, error: null }: setBookings(data || []), setLoading(false)
ProLoadBookingsOk(r) ==
    /\ r \in net /\ r.sess \in ProSessions
    /\ r.op = "select" /\ r.phase = "done" /\ ~r.error
    /\ bookings' = [bookings EXCEPT ![r.sess] = r.data]
    /\ loading' = [loading EXCEPT ![r.sess] = FALSE]
    /\ net' = net \ {r}
    /\ UNCHANGED <<bookingsTable, servicesTable, profilesTable, profile,
                   consoleErrors, alerts, now,
                   envVars, analyticsVars, searchVars, dashboardVars,
                   renderVars, photoStore, photoVars>>

\* loadBookings resumed with { error }: console.error, setLoading(false)
ProLoadBookingsError(r) ==
    /\ r \in net /\ r.sess \in ProSessions
    /\ r.op = "select" /\ r.phase = "done" /\ r.error
    /\ consoleErrors' = [consoleErrors EXCEPT ![r.sess] = @ + 1]
    /\ loading' = [loading EXCEPT ![r.sess] = FALSE]
    /\ net' = net \ {r}
    /\ UNCHANGED <<bookingsTable, servicesTable, profilesTable, profile, bookings,
                   alerts, now,
                   envVars, analyticsVars, searchVars, dashboardVars,
                   renderVars, photoStore, photoVars>>

\* the awaited query rejects (the request or its answer is lost): catch, finally
ProLoadBookingsThrow(r) ==
    /\ r \in net /\ r.sess \in ProSessions
    /\ r.op = "select" /\ ~r.error
    /\ MayFail
    /\ consoleErrors' = [consoleErrors EXCEPT ![r.sess] = @ + 1]
    /\ loading' = [loading EXCEPT ![r.sess] = FALSE]
    /\ net' = net \ {r}
    /\ UNCHANGED <<bookingsTable, servicesTable, profilesTable, profile, bookings,
                   alerts, now,
                   envVars, analyticsVars, searchVars, dashboardVars,
                   renderVars, photoStore, photoVars>>

\* updateBookingStatus without its loadBookings() call
UpdateOkNoRefresh(r) ==
    /\ r \in net /\ r.sess \in ProSessions
    /\ r.op = "update" /\ r.phase = "done" /\ ~r.error
    /\ net' = net \ {r}
    /\ UNCHANGED <<bookingsTable, servicesTable, profilesTable, profile, bookings,
                   loading, consoleErrors, alerts, now,
                   envVars, analyticsVars, searchVars, dashboardVars,
                   renderVars, photoStore, photoVars>>

\* updateBookingStatus resumed with { error: null }: loadBookings()
UpdateOk(r) ==
    /\ r \in net /\ r.sess \in ProSessions
    /\ r.op = "update" /\ r.phase = "done" /\ ~r.error
    /\ now < MaxTime
    /\ net' = ProLoadBookingsCall(r.sess, profile[r.sess], net \ {r}, now,
                                 "updateBookingStatus")
    /\ now' = now + 1
    /\ UNCHANGED <<bookingsTable, servicesTable, profilesTable, profile, bookings,
                   loading, consoleErrors, alerts,
                   envVars, analyticsVars, searchVars, dashboardVars,
                   renderVars, photoStore, photoVars>>

\* updateBookingStatus resumed with { error }: console.error
UpdateError(r) ==
    /\ r \in net /\ r.sess \in ProSessions
    /\ r.op = "update" /\ r.phase = "done" /\ r.error
    /\ consoleErrors' = [consoleErrors EXCEPT ![r.sess] = @ + 1]
    /\ net' = net \ {r}
    /\ UNCHANGED <<bookingsTable, servicesTable, profilesTable, profile, bookings,
                   loading, alerts, now,
                   envVars, analyticsVars, searchVars, dashboardVars,
                   renderVars, photoStore, photoVars>>

\* the awaited update rejects: catch
UpdateThrow(r) ==
    /\ r \in net /\ r.sess \in ProSessions
    /\ r.op = "update" /\ ~r.error
    /\ MayFail
    /\ consoleErrors' = [consoleErrors EXCEPT ![r.sess] = @ + 1]
    /\ net' = net \ {r}
    /\ UNCHANGED <<bookingsTable, servicesTable, profilesTable, profile, bookings,
                   loading, alerts, now,
                   envVars, analyticsVars, searchVars, dashboardVars,
                   renderVars, photoStore, photoVars>>

-----------------------------------------------------------------------------
(* Client bookings screen (BookingsScreen).  Every item of the list is drawn *)
(* under one of the two tabs, with the same card.                            *)

ClientTabs == {"upcoming", "past"}

\* the buttons renderBookingCard draws for an item
ClientButtons(item) ==
    IF item.status = "pending" THEN {"Cancelar", "Contatar"} ELSE {}

\* Cancelar wired to a status update
ClientOnPressCancels(button) == IF button = "Cancelar" THEN "cancelled" ELSE Null

\* neither button has an onPress: a press calls nothing
ClientOnPress(button) == Null

ClientLoadBookingsCall(s, prof, pending, slot, caller) ==
    IF prof = NoProfile THEN pending
    ELSE pending \cup
         {SelectRequest(s, slot, caller, "client_id", prof.id, "false", "professional_id")}

\* useEffect(() => { if (profile) loadBookings() }, [profile])
ClientProfileLoaded(s) ==
    /\ s \in ClientSessions
    /\ profile[s] = NoProfile
    /\ HasRoom
    /\ profile' = [profile EXCEPT ![s] = profilesTable[UserOf(s)]]
    /\ net' = ClientLoadBookingsCall(s, profile'[s], net, now, "useEffect")
    /\ now' = now + 1
    /\ UNCHANGED <<bookingsTable, servicesTable, profilesTable, bookings, loading,
                   consoleErrors, alerts,
                   envVars, analyticsVars, searchVars, dashboardVars,
                   renderVars, photoStore, photoVars>>

\* FlatList onRefresh={loadBookings}; the list is drawn only when it is not empty
ClientRefresh(s) ==
    /\ s \in ClientSessions
    /\ Len(bookings[s]) > 0
    /\ HasRoom
    /\ net' = ClientLoadBookingsCall(s, profile[s], net, now, "onRefresh")
    /\ now' = now + 1
    /\ UNCHANGED <<bookingsTable, servicesTable, profilesTable, profile, bookings,
                   loading, consoleErrors, alerts,
                   envVars, analyticsVars, searchVars, dashboardVars,
                   renderVars, photoStore, photoVars>>

\* a press on Cancelar or Contatar of a drawn card
ClientPressButton(s, i, button) ==
    /\ s \in ClientSessions
    /\ i \in 1..Len(bookings[s])
    /\ button \in ClientButtons(bookings[s][i])
    /\ IF ClientOnPress(button) = Null
       THEN UNCHANGED <<net, now>>
       ELSE /\ HasRoom
            /\ net' = net \cup {UpdateRequest(s, now, bookings[s][i].id,
                                              ClientOnPress(button), now)}
            /\ now' = now + 1
    /\ UNCHANGED <<bookingsTable, servicesTable, profilesTable, profile, bookings,
                   loading, consoleErrors, alerts,
                   envVars, analyticsVars, searchVars, dashboardVars,
                   renderVars, photoStore, photoVars>>

ClientLoadBookingsOk(r) ==
    /\ r \in net /\ r.sess \in ClientSessions
    /\ r.op = "select" /\ r.phase = "done" /\ ~r.error
    /\ bookings' = [bookings EXCEPT ![r.sess] = r.data]
    /\ loading' = [loading EXCEPT ![r.sess] = FALSE]
    /\ net' = net \ {r}
    /\ UNCHANGED <<bookingsTable, servicesTable, profilesTable, profile,
                   consoleErrors, alerts, now,
                   envVars, analyticsVars, searchVars, dashboardVars,
                   renderVars, photoStore, photoVars>>

ClientLoadBookingsError(r) ==
    /\ r \in net /\ r.sess \in ClientSessions
    /\ r.op = "select" /\ r.phase = "done" /\ r.error
    /\ consoleErrors' = [consoleErrors EXCEPT ![r.sess] = @ + 1]
    /\ loading' = [loading EXCEPT ![r.sess] = FALSE]
    /\ net' = net \ {r}
    /\ UNCHANGED <<bookingsTable, servicesTable, profilesTable, profile, bookings,
                   alerts, now,
                   envVars, analyticsVars, searchVars, dashboardVars,
                   renderVars, photoStore, photoVars>>

ClientLoadBookingsThrow(r) ==
    /\ r \in net /\ r.sess \in ClientSessions
    /\ r.op = "select" /\ ~r.error
    /\ MayFail
    /\ consoleErrors' = [consoleErrors EXCEPT ![r.sess] = @ + 1]
    /\ loading' = [loading EXCEPT ![r.sess] = FALSE]
    /\ net' = net \ {r}
    /\ UNCHANGED <<bookingsTable, servicesTable, profilesTable, profile, bookings,
                   alerts, now,
                   envVars, analyticsVars, searchVars, dashboardVars,
                   renderVars, photoStore, photoVars>>

-----------------------------------------------------------------------------
(* Analytics screen (AnalyticsScreen) *)

Periods == {"month", "quarter", "year"}

DefaultLabel == <<"S", "C">>

InitialAnalyticsData ==
    [totalRevenue |-> 0, totalBookings |-> 0, averageRating |-> "4.8",
     completionRate |-> [num |-> 0, den |-> 1],
     monthlyRevenue |-> <<>>, topServices |-> <<>>]

DaysIn(m) == IF m = 2 THEN 28 ELSE IF m \in {4, 6, 9, 11} THEN 30 ELSE 31

\* new Date('YYYY-MM-DD') is midnight UTC; getFullYear() and getMonth() read it
\* in local time, the day before when the time zone is behind UTC
LocalDate(d, west) ==
    IF ~west THEN d
    ELSE IF d.day > 1 THEN Date(d.year, d.month, d.day - 1)
    ELSE IF d.month > 1 THEN Date(d.year, d.month - 1, DaysIn(d.month - 1))
    ELSE Date(d.year - 1, 12, 31)

RECURSIVE SumPrices(_)
SumPrices(list) ==
    IF list = <<>> THEN 0 ELSE Head(list).total_price + SumPrices(Tail(list))

\* the completed filter also letting confirmed bookings through
completedBookingsOrConfirmed(list) ==
    SelectSeq(list, LAMBDA b : b.status \in {"completed", "confirmed"})

completedBookings(list) == SelectSeq(list, LAMBDA b : b.status = "completed")

monthDiff(currentDate, bookingDate) ==
    (currentDate.year - bookingDate.year) * 12 + (currentDate.month - bookingDate.month)

\* Array(6).fill(0), then monthlyRevenue[5 - monthDiff] += total_price
monthlyRevenue(list, currentDate, west) ==
    [i \in 1..6 |->
        SumPrices(SelectSeq(completedBookings(list),
            LAMBDA b : LET d == monthDiff(currentDate, LocalDate(b.event_date, west))
                       IN  d >= 0 /\ d < 6 /\ 5 - d = i - 1))]

\* titles that name a member every object literal inherits
ObjectPrototypeKeys ==
    {<<"c", "o", "n", "s", "t", "r", "u", "c", "t", "o", "r">>,
     <<"t", "o", "S", "t", "r", "i", "n", "g">>}

serviceTitle(booking) ==
    IF booking.services.title = <<>> THEN DefaultLabel ELSE booking.services.title

\* the keys of serviceStats in the order they were first set: serviceStats is
\* an object literal, so for a title that names a member of Object.prototype
\* !serviceStats[title] is false, the counters go to the inherited member and
\* the title never becomes a key
RECURSIVE StatKeys(_, _)
StatKeys(list, seen) ==
    IF list = <<>> THEN seen
    ELSE LET title == serviceTitle(Head(list))
         IN  StatKeys(Tail(list),
                      IF title \in ObjectPrototypeKeys
                         \/ \E i \in 1..Len(seen) : seen[i] = title
                      THEN seen ELSE Append(seen, title))

\* the grouping counting the bookings of every status
serviceStatsAnyStatus(list) ==
    LET keys == StatKeys(list, <<>>)
        of(title) == SelectSeq(list, LAMBDA b : serviceTitle(b) = title)
    IN  [i \in 1..Len(keys) |->
            [title |-> keys[i], bookings |-> Len(of(keys[i])),
             revenue |-> SumPrices(of(keys[i]))]]

serviceStats(list) ==
    LET keys == StatKeys(completedBookings(list), <<>>)
        of(title) == SelectSeq(completedBookings(list), LAMBDA b : serviceTitle(b) = title)
    IN  [i \in 1..Len(keys) |->
            [title |-> keys[i], bookings |-> Len(of(keys[i])),
             revenue |-> SumPrices(of(keys[i]))]]

\* Array.prototype.sort with (a, b) => b.revenue - a.revenue: stable
RECURSIVE SortByRevenue(_)
SortByRevenue(entries) ==
    IF entries = <<>> THEN <<>>
    ELSE LET best == CHOOSE i \in 1..Len(entries) :
                        /\ \A j \in 1..Len(entries) : entries[j].revenue <= entries[i].revenue
                        /\ \A j \in 1..(i - 1) : entries[j].revenue < entries[i].revenue
             rest == [j \in 1..(Len(entries) - 1) |->
                        IF j < best THEN entries[j] ELSE entries[j + 1]]
         IN  <<entries[best]>> \o SortByRevenue(rest)

topServices(list) ==
    LET sorted == SortByRevenue(serviceStats(list))
    IN  SubSeq(sorted, 1, IF Len(sorted) < 5 THEN Len(sorted) ELSE 5)

\* the aggregation dividing by totalBookings without the guard for an empty list
AnalyticsNoEmptyGuard(list, currentDate, west) ==
    [totalRevenue |-> SumPrices(completedBookings(list)),
     totalBookings |-> Len(list),
     averageRating |-> "4.8",
     completionRate |-> [num |-> Len(completedBookings(list)) * 100, den |-> Len(list)],
     monthlyRevenue |-> monthlyRevenue(list, currentDate, west),
     topServices |-> topServices(list)]

\* the object loadAnalyticsData hands to setAnalyticsData
Analytics(list, currentDate, west) ==
    [totalRevenue |-> SumPrices(completedBookings(list)),
     totalBookings |-> Len(list),
     averageRating |-> "4.8",
     completionRate |->
        IF Len(list) > 0
        THEN [num |-> Len(completedBookings(list)) * 100, den |-> Len(list)]
        ELSE [num |-> 0, den |-> 1],
     monthlyRevenue |-> monthlyRevenue(list, currentDate, west),
     topServices |-> topServices(list)]

\* loadAnalyticsData up to its await: setLoading(true) and the query
loadAnalyticsData(s, prof) ==
    IF prof = NoProfile
    THEN UNCHANGED <<net, loading, now>>
    ELSE /\ HasRoom
         /\ loading' = [loading EXCEPT ![s] = TRUE]
         /\ net' = net \cup {SelectRequest(s, now, "loadAnalyticsData",
                                           "professional_id", prof.id, Null, Null)}
         /\ now' = now + 1

\* useEffect(() => { if (profile) loadAnalyticsData() }, [profile, selectedPeriod])
AnalyticsProfileLoaded(s) ==
    /\ s \in AnalyticsSessions
    /\ profile[s] = NoProfile
    /\ profile' = [profile EXCEPT ![s] = profilesTable[UserOf(s)]]
    /\ loadAnalyticsData(s, profile'[s])
    /\ UNCHANGED <<bookingsTable, servicesTable, profilesTable, bookings,
                   consoleErrors, alerts, envVars, analyticsVars, searchVars, dashboardVars,
                   renderVars, photoStore, photoVars>>

\* a press on a period button: setSelectedPeriod, and the effect runs again
SetSelectedPeriod(s, period) ==
    /\ s \in AnalyticsSessions
    /\ period \in Periods
    /\ selectedPeriod # period
    /\ selectedPeriod' = period
    /\ loadAnalyticsData(s, profile[s])
    /\ UNCHANGED <<bookingsTable, servicesTable, profilesTable, profile, bookings,
                   consoleErrors, alerts, envVars, analyticsData, searchVars, dashboardVars,
                   renderVars, photoStore, photoVars>>

\* loadAnalyticsData adding the new revenue to the figure it already holds
LoadAnalyticsOkAccumulates(r) ==
    /\ r \in net /\ r.sess \in AnalyticsSessions
    /\ r.op = "select" /\ r.phase = "done" /\ ~r.error
    /\ analyticsData' =
          [Analytics(r.data, today, tzWest)
           EXCEPT !.totalRevenue = analyticsData.totalRevenue + @]
    /\ loading' = [loading EXCEPT ![r.sess] = FALSE]
    /\ net' = net \ {r}
    /\ UNCHANGED <<bookingsTable, servicesTable, profilesTable, profile, bookings,
                   consoleErrors, alerts, now, envVars, selectedPeriod, searchVars,
                   dashboardVars,
                   renderVars, photoStore, photoVars>>

\* loadAnalyticsData resumed with { data }: the aggregation, setAnalyticsData, setLoading(false)
LoadAnalyticsOk(r) ==
    /\ r \in net /\ r.sess \in AnalyticsSessions
    /\ r.op = "select" /\ r.phase = "done" /\ ~r.error
    /\ analyticsData' = Analytics(r.data, today, tzWest)
    /\ loading' = [loading EXCEPT ![r.sess] = FALSE]
    /\ net' = net \ {r}
    /\ UNCHANGED <<bookingsTable, servicesTable, profilesTable, profile, bookings,
                   consoleErrors, alerts, now, envVars, selectedPeriod, searchVars, dashboardVars,
                   renderVars, photoStore, photoVars>>

\* loadAnalyticsData resetting the figures when the query returns an error
LoadAnalyticsErrorResets(r) ==
    /\ r \in net /\ r.sess \in AnalyticsSessions
    /\ r.op = "select" /\ r.phase = "done" /\ r.error
    /\ analyticsData' = InitialAnalyticsData
    /\ consoleErrors' = [consoleErrors EXCEPT ![r.sess] = @ + 1]
    /\ loading' = [loading EXCEPT ![r.sess] = FALSE]
    /\ net' = net \ {r}
    /\ UNCHANGED <<bookingsTable, servicesTable, profilesTable, profile, bookings,
                   alerts, now, envVars, selectedPeriod, searchVars, dashboardVars,
                   renderVars, photoStore, photoVars>>

\* loadAnalyticsData resumed with { error }: console.error, setLoading(false)
LoadAnalyticsError(r) ==
    /\ r \in net /\ r.sess \in AnalyticsSessions
    /\ r.op = "select" /\ r.phase = "done" /\ r.error
    /\ consoleErrors' = [consoleErrors EXCEPT ![r.sess] = @ + 1]
    /\ loading' = [loading EXCEPT ![r.sess] = FALSE]
    /\ net' = net \ {r}
    /\ UNCHANGED <<bookingsTable, servicesTable, profilesTable, profile, bookings,
                   alerts, now, envVars, analyticsVars, searchVars, dashboardVars,
                   renderVars, photoStore, photoVars>>

\* the awaited query rejects: catch, finally
LoadAnalyticsThrow(r) ==
    /\ r \in net /\ r.sess \in AnalyticsSessions
    /\ r.op = "select" /\ ~r.error
    /\ MayFail
    /\ consoleErrors' = [consoleErrors EXCEPT ![r.sess] = @ + 1]
    /\ loading' = [loading EXCEPT ![r.sess] = FALSE]
    /\ net' = net \ {r}
    /\ UNCHANGED <<bookingsTable, servicesTable, profilesTable, profile, bookings,
                   alerts, now, envVars, analyticsVars, searchVars, dashboardVars,
                   renderVars, photoStore, photoVars>>

-----------------------------------------------------------------------------
(* Professional dashboard (ProfessionalHomeScreen) *)

InitialStats ==
    [totalBookings |-> 0, pendingBookings |-> 0, monthlyRevenue |-> 0,
     averageRating |-> "4.8"]

\* the current month's revenue of the dashboard: confirmed or completed bookings
dashboardMonthlyRevenue(list, currentDate, west) ==
    SumPrices(SelectSeq(list,
        LAMBDA b : /\ LocalDate(b.event_date, west).month = currentDate.month
                   /\ LocalDate(b.event_date, west).year = currentDate.year
                   /\ b.status \in {"confirmed", "completed"}))

\* the object loadDashboardData hands to setStats
Stats(list, currentDate, west) ==
    [totalBookings |-> Len(list),
     pendingBookings |-> Len(SelectSeq(list, LAMBDA b : b.status = "pending")),
     monthlyRevenue |-> dashboardMonthlyRevenue(list, currentDate, west),
     averageRating |-> "4.8"]

\* useEffect(() => { if (profile) loadDashboardData() }, [profile]): the query
\* is ordered by created_at, newest first, and limited to 5 rows
DashboardProfileLoaded(s) ==
    /\ s \in DashboardSessions
    /\ profile[s] = NoProfile
    /\ HasRoom
    /\ profile' = [profile EXCEPT ![s] = profilesTable[UserOf(s)]]
    /\ net' = net \cup {[SelectRequest(s, now, "loadDashboardData", "professional_id",
                                       profile'[s].id, Null, "client_id")
                         EXCEPT !.limit = 5]}
    /\ now' = now + 1
    /\ UNCHANGED <<bookingsTable, servicesTable, profilesTable, bookings, loading,
                   consoleErrors, alerts, envVars, analyticsVars, searchVars,
                   dashboardVars,
                   renderVars, photoStore, photoVars>>

\* loadDashboardData resumed with { data }: setRecentBookings, setStats, setLoading(false)
LoadDashboardOk(r) ==
    /\ r \in net /\ r.sess \in DashboardSessions
    /\ r.op = "select" /\ r.phase = "done" /\ ~r.error
    /\ recentBookings' = r.data
    /\ stats' = Stats(r.data, today, tzWest)
    /\ loading' = [loading EXCEPT ![r.sess] = FALSE]
    /\ net' = net \ {r}
    /\ UNCHANGED <<bookingsTable, servicesTable, profilesTable, profile, bookings,
                   consoleErrors, alerts, now, envVars, analyticsVars, searchVars,
                   renderVars, photoStore, photoVars>>

\* loadDashboardData resumed with { error }: console.error, setLoading(false)
LoadDashboardError(r) ==
    /\ r \in net /\ r.sess \in DashboardSessions
    /\ r.op = "select" /\ r.phase = "done" /\ r.error
    /\ consoleErrors' = [consoleErrors EXCEPT ![r.sess] = @ + 1]
    /\ loading' = [loading EXCEPT ![r.sess] = FALSE]
    /\ net' = net \ {r}
    /\ UNCHANGED <<bookingsTable, servicesTable, profilesTable, profile, bookings,
                   alerts, now, envVars, analyticsVars, searchVars, dashboardVars,
                   renderVars, photoStore, photoVars>>

\* the awaited query rejects: catch, finally
LoadDashboardThrow(r) ==
    /\ r \in net /\ r.sess \in DashboardSessions
    /\ r.op = "select" /\ ~r.error
    /\ MayFail
    /\ consoleErrors' = [consoleErrors EXCEPT ![r.sess] = @ + 1]
    /\ loading' = [loading EXCEPT ![r.sess] = FALSE]
    /\ net' = net \ {r}
    /\ UNCHANGED <<bookingsTable, servicesTable, profilesTable, profile, bookings,
                   alerts, now, envVars, analyticsVars, searchVars, dashboardVars,
                   renderVars, photoStore, photoVars>>

-----------------------------------------------------------------------------
(* Search screen (SearchScreen) *)

FilterKeys == {"budget", "premium", "nearby", "available"}

toLowerCase(text) ==
    [i \in 1..Len(text) |->
        CASE text[i] = "A" -> "a" [] text[i] = "B" -> "b" [] text[i] = "S" -> "s"
          [] text[i] = "C" -> "c" [] text[i] = "D" -> "d" [] OTHER -> text[i]]

\* String.prototype.includes
includes(text, part) ==
    \E i \in 0..(Len(text) - Len(part)) : SubSeq(text, i + 1, i + Len(part)) = part

RECURSIVE trimStart(_)
trimStart(text) ==
    IF text # <<>> /\ Head(text) = " " THEN trimStart(Tail(text)) ELSE text

RECURSIVE trimEnd(_)
trimEnd(text) ==
    IF text # <<>> /\ text[Len(text)] = " "
    THEN trimEnd(SubSeq(text, 1, Len(text) - 1)) ELSE text

trim(text) == trimEnd(trimStart(text))

\* the text predicate looking at the title alone
MatchesTextTitleOnly(service, query) ==
    includes(toLowerCase(service.title), toLowerCase(query))

\* the text predicate of filterServices for one service
MatchesText(service, query) ==
    \/ includes(toLowerCase(service.title), toLowerCase(query))
    \/ includes(toLowerCase(service.description), toLowerCase(query))
    \/ includes(toLowerCase(service.location), toLowerCase(query))
    \/ /\ service.profiles.present
       /\ includes(toLowerCase(service.profiles.full_name), toLowerCase(query))

\* filterServices with the budget bound exclusive
filterServicesStrictBudget(list, query, filters) ==
    LET selected(key) == \E i \in 1..Len(filters) : filters[i] = key
        byText == IF trim(query) # <<>>
                  THEN SelectSeq(list, LAMBDA service : MatchesText(service, query))
                  ELSE list
        byBudget == IF selected("budget")
                    THEN SelectSeq(byText, LAMBDA service : service.price_from < 500)
                    ELSE byText
    IN  IF selected("premium")
        THEN SelectSeq(byBudget, LAMBDA service : service.price_from >= 800)
        ELSE byBudget

\* filterServices handing over its result last service first
filterServicesReversed(list, query, filters) ==
    LET selected(key) == \E i \in 1..Len(filters) : filters[i] = key
        byText == IF trim(query) # <<>>
                  THEN SelectSeq(list, LAMBDA service : MatchesText(service, query))
                  ELSE list
        byBudget == IF selected("budget")
                    THEN SelectSeq(byText, LAMBDA service : service.price_from <= 500)
                    ELSE byText
        result == IF selected("premium")
                  THEN SelectSeq(byBudget, LAMBDA service : service.price_from >= 800)
                  ELSE byBudget
    IN  [i \in 1..Len(result) |-> result[Len(result) + 1 - i]]

\* filterServices: the list it hands to setFilteredServices
filterServices(list, query, filters) ==
    LET selected(key) == \E i \in 1..Len(filters) : filters[i] = key
        byText == IF trim(query) # <<>>
                  THEN SelectSeq(list, LAMBDA service : MatchesText(service, query))
                  ELSE list
        byBudget == IF selected("budget")
                    THEN SelectSeq(byText, LAMBDA service : service.price_from <= 500)
                    ELSE byText
    IN  IF selected("premium")
        THEN SelectSeq(byBudget, LAMBDA service : service.price_from >= 800)
        ELSE byBudget

\* toggleFilter that only ever selects
toggleFilterSelectOnly(prev, filterKey) ==
    IF \E i \in 1..Len(prev) : prev[i] = filterKey
    THEN prev
    ELSE Append(prev, filterKey)

\* toggleFilter: the next selectedFilters
toggleFilter(prev, filterKey) ==
    IF \E i \in 1..Len(prev) : prev[i] = filterKey
    THEN SelectSeq(prev, LAMBDA f : f # filterKey)
    ELSE Append(prev, filterKey)

\* Searchbar onChangeText={setSearchQuery}; the effect then runs filterServices
SetSearchQuery(s, query) ==
    /\ s \in SearchSessions
    /\ searchQuery # query
    /\ searchQuery' = query
    /\ filteredServices' = filterServices(services, searchQuery', selectedFilters)
    /\ UNCHANGED <<bookingsTable, servicesTable, profilesTable, net, profile, bookings,
                   loading, consoleErrors, alerts, now, envVars, analyticsVars,
                   services, selectedFilters, dashboardVars,
                   renderVars, photoStore, photoVars>>

\* a press on a filter chip: toggleFilter; the effect then runs filterServices
ToggleFilter(s, filterKey) ==
    /\ s \in SearchSessions
    /\ filterKey \in FilterKeys
    /\ selectedFilters' = toggleFilter(selectedFilters, filterKey)
    /\ filteredServices' = filterServices(services, searchQuery, selectedFilters')
    /\ UNCHANGED <<bookingsTable, servicesTable, profilesTable, net, profile, bookings,
                   loading, consoleErrors, alerts, now, envVars, analyticsVars,
                   services, searchQuery, dashboardVars,
                   renderVars, photoStore, photoVars>>

\* loadServices up to its await, from the mount effect or from onRefresh
SearchLoadServices(s) ==
    /\ s \in SearchSessions
    /\ HasRoom
    /\ loading' = [loading EXCEPT ![s] = TRUE]
    /\ net' = net \cup {[SelectRequest(s, now, "loadServices", Null, Null, Null, Null)
                         EXCEPT !.table = "services"]}
    /\ now' = now + 1
    /\ UNCHANGED <<bookingsTable, servicesTable, profilesTable, profile, bookings,
                   consoleErrors, alerts, envVars, analyticsVars, searchVars, dashboardVars,
                   renderVars, photoStore, photoVars>>

\* loadServices resumed with { data }: setServices(data || []), setLoading(false);
\* the effect on [searchQuery, services, selectedFilters] then runs filterServices
LoadServicesOk(r) ==
    /\ r \in net /\ r.sess \in SearchSessions
    /\ r.op = "select" /\ r.phase = "done" /\ ~r.error
    /\ services' = r.data
    /\ filteredServices' = filterServices(services', searchQuery, selectedFilters)
    /\ loading' = [loading EXCEPT ![r.sess] = FALSE]
    /\ net' = net \ {r}
    /\ UNCHANGED <<bookingsTable, servicesTable, profilesTable, profile, bookings,
                   consoleErrors, alerts, now, envVars, analyticsVars, searchQuery,
                   selectedFilters, dashboardVars,
                   renderVars, photoStore, photoVars>>

\* loadServices resumed with { error }: console.error, setLoading(false)
LoadServicesError(r) ==
    /\ r \in net /\ r.sess \in SearchSessions
    /\ r.op = "select" /\ r.phase = "done" /\ r.error
    /\ consoleErrors' = [consoleErrors EXCEPT ![r.sess] = @ + 1]
    /\ loading' = [loading EXCEPT ![r.sess] = FALSE]
    /\ net' = net \ {r}
    /\ UNCHANGED <<bookingsTable, servicesTable, profilesTable, profile, bookings,
                   alerts, now, envVars, analyticsVars, searchVars, dashboardVars,
                   renderVars, photoStore, photoVars>>

\* the awaited query rejects: catch, finally
LoadServicesThrow(r) ==
    /\ r \in net /\ r.sess \in SearchSessions
    /\ r.op = "select" /\ ~r.error
    /\ MayFail
    /\ consoleErrors' = [consoleErrors EXCEPT ![r.sess] = @ + 1]
    /\ loading' = [loading EXCEPT ![r.sess] = FALSE]
    /\ net' = net \ {r}
    /\ UNCHANGED <<bookingsTable, servicesTable, profilesTable, profile, bookings,
                   alerts, now, envVars, analyticsVars, searchVars, dashboardVars,
                   renderVars, photoStore, photoVars>>

-----------------------------------------------------------------------------
(* The backend executing a request *)

\* the store answers a select with the rows the policy and the filter let through
StoreSelect(r) ==
    /\ r \in net /\ r.op = "select" /\ r.phase = "sent"
    /\ net' = (net \ {r}) \cup
              {[r EXCEPT !.phase = "done",
                         !.data = IF r.table = "services"
                                  THEN SelectServices(UserOf(r.sess))
                                  ELSE IF r.limit > 0
                                  THEN SelectRecentBookings(UserOf(r.sess), r.col, r.val,
                                                            r.fkey, r.limit)
                                  ELSE SelectBookings(UserOf(r.sess), r.col, r.val,
                                                      r.ascending, r.fkey)]}
    /\ UNCHANGED <<bookingsTable, servicesTable, profilesTable, profile, bookings,
                   loading, consoleErrors, alerts, now,
                   envVars, analyticsVars, searchVars, dashboardVars,
                   renderVars, photoStore, photoVars>>

\* the store applies an update: no check of the row's current status, no version
StoreUpdate(r) ==
    /\ r \in net /\ r.op = "update" /\ r.phase = "sent"
    /\ bookingsTable' = UpdateBookings(bookingsTable, UserOf(r.sess), r.patch, r.id)
    /\ net' = (net \ {r}) \cup {[r EXCEPT !.phase = "done"]}
    /\ UNCHANGED <<servicesTable, profilesTable, profile, bookings, loading,
                   consoleErrors, alerts, now,
                   envVars, analyticsVars, searchVars, dashboardVars,
                   renderVars, photoStore, photoVars>>

\* the backend refuses a request (network, auth, validation): { error }
StoreError(r) ==
    /\ r \in net /\ r.phase = "sent"
    /\ MayFail
    /\ net' = (net \ {r}) \cup {[r EXCEPT !.phase = "done", !.error = TRUE]}
    /\ UNCHANGED <<bookingsTable, servicesTable, profilesTable, profile, bookings,
                   loading, consoleErrors, alerts, now,
                   envVars, analyticsVars, searchVars, dashboardVars,
                   renderVars, photoStore, photoVars>>

-----------------------------------------------------------------------------
(* Client bookings screen: the tabs Próximos (upcoming) and Histórico (past) *)

NextDay(d) ==
    IF d.day < DaysIn(d.month) THEN Date(d.year, d.month, d.day + 1)
    ELSE IF d.month < 12 THEN Date(d.year, d.month + 1, 1)
    ELSE Date(d.year + 1, 1, 1)

PreviousDay(d) == LocalDate(d, TRUE)

\* the instants new Date() can give while the device's calendar shows `current`:
\* a UTC date and the time since UTC midnight (0: exactly midnight, 1: later).
\* Behind UTC the UTC date is the local one or the next; otherwise the local
\* one or the previous.
Instants(current, west) ==
    IF west
    THEN {[date |-> current, ms |-> 1],
          [date |-> NextDay(current), ms |-> 0], [date |-> NextDay(current), ms |-> 1]}
    ELSE {[date |-> PreviousDay(current), ms |-> 1],
          [date |-> current, ms |-> 0], [date |-> current, ms |-> 1]}

\* new Date(date) >= new Date(): midnight UTC of the event date against the instant
isUpcoming(date, instant) ==
    \/ DateBefore(instant.date, date)
    \/ instant.date = date /\ instant.ms = 0

\* const filteredBookings = bookings.filter(...), the cards drawn under a tab
filteredBookings(list, activeTab, instant) ==
    SelectSeq(list, LAMBDA booking :
        IF activeTab = "upcoming"
        THEN /\ isUpcoming(booking.event_date, instant)
             /\ booking.status # "completed" /\ booking.status # "cancelled"
        ELSE \/ ~isUpcoming(booking.event_date, instant)
             \/ booking.status = "completed" \/ booking.status = "cancelled")

\* a render of the screen at an instant: the list of either tab
ClientRenderList(s, instant) ==
    /\ s \in ClientSessions
    /\ instant \in Instants(today, tzWest)
    /\ clientRender' = [drawn |-> TRUE, at |-> instant,
                        upcoming |-> filteredBookings(bookings[s], "upcoming", instant),
                        past |-> filteredBookings(bookings[s], "past", instant)]
    /\ UNCHANGED <<bookingsTable, servicesTable, profilesTable, net, profile, bookings,
                   loading, consoleErrors, alerts, now, envVars, analyticsVars,
                   searchVars, dashboardVars, chartLabels, photoStore, photoVars>>

\* every screen as constructed, no request in flight
-----------------------------------------------------------------------------
(* Writes through the data API by any signed-in user, as the schema and the  *)
(* row-level-security policies admit them                                    *)

ProfileIds == DOMAIN profilesTable

\* "Clients can create bookings."
BookingsInsertPolicy(uid, row) == uid = row.client_id

\* references public.profiles(id) twice and public.services(id)
BookingsForeignKeys(row) ==
    /\ row.client_id \in ProfileIds
    /\ row.professional_id \in ProfileIds
    /\ \E i \in 1..Len(servicesTable) : servicesTable[i].id = row.service_id

\* the row an insert of the three references gives, the rest as in a request
\* for a booking: the column default for status, a fresh id
NewBooking(table, client, professional, service) ==
    [InitialBooking(1) EXCEPT !.id = Len(table) + 1,
                              !.client_id = client,
                              !.professional_id = professional,
                              !.service_id = service,
                              !.status = DefaultStatus]

\* insert into public.bookings run as user uid
InsertBookings(table, uid, row) ==
    IF BookingsForeignKeys(row) /\ BookingsInsertPolicy(uid, row)
    THEN Append(table, row)
    ELSE table

InsertBooking(uid, client, professional, service) ==
    /\ Len(bookingsTable) < NumBookings + MaxRows
    /\ bookingsTable' = InsertBookings(bookingsTable, uid,
                            NewBooking(bookingsTable, client, professional, service))
    /\ UNCHANGED <<servicesTable, profilesTable, net, profile, bookings, loading,
                   consoleErrors, alerts, now, envVars, analyticsVars, searchVars,
                   dashboardVars, renderVars, photoStore, photoVars>>

\* "Professionals can create services."
ServicesInsertPolicy(uid, row) == uid = row.professional_id

\* the update policy letting every professional through
ServicesUpdatePolicyAnyProfessional(uid, row) ==
    uid \in ProfileIds /\ profilesTable[uid].user_type = "professional"

\* "Professionals can update their own services."; without a with check clause
\* the using expression is checked on the new row as well
ServicesUpdatePolicy(uid, row) == uid = row.professional_id

\* "Professionals can delete their own services."
ServicesDeletePolicy(uid, row) == uid = row.professional_id

\* references public.profiles(id)
ServicesForeignKeys(row) == row.professional_id \in ProfileIds

RECURSIVE MaxId(_)
MaxId(table) ==
    IF table = <<>> THEN 0
    ELSE LET rest == MaxId(Tail(table))
         IN  IF Head(table).id > rest THEN Head(table).id ELSE rest

NewService(table, owner, price) ==
    [InitialService(1) EXCEPT !.id = MaxId(table) + 1,
                              !.professional_id = owner,
                              !.price_from = price]

\* insert into public.services run as user uid
InsertServices(table, uid, row) ==
    IF ServicesForeignKeys(row) /\ ServicesInsertPolicy(uid, row)
    THEN Append(table, row)
    ELSE table

\* update public.services set col = val where id = serviceId, run as user uid:
\* rows the policy hides are not touched, a new row the policy refuses or
\* that breaks the foreign key fails the statement
UpdateServices(table, uid, serviceId, col, val) ==
    LET hit(row) == row.id = serviceId /\ ServicesUpdatePolicy(uid, row)
        new(row) == [row EXCEPT ![col] = val]
    IN  IF \E i \in 1..Len(table) :
              hit(table[i]) /\ ~(/\ ServicesUpdatePolicy(uid, new(table[i]))
                                 /\ ServicesForeignKeys(new(table[i])))
        THEN table
        ELSE [i \in 1..Len(table) |-> IF hit(table[i]) THEN new(table[i]) ELSE table[i]]

\* delete from public.services where id = serviceId, run as user uid
DeleteServices(table, uid, serviceId) ==
    SelectSeq(table, LAMBDA row : ~(row.id = serviceId /\ ServicesDeletePolicy(uid, row)))

InsertService(uid, owner, price) ==
    /\ Len(servicesTable) <= NumServices
    /\ servicesTable' = InsertServices(servicesTable, uid,
                                       NewService(servicesTable, owner, price))
    /\ UNCHANGED <<bookingsTable, profilesTable, net, profile, bookings, loading,
                   consoleErrors, alerts, now, envVars, analyticsVars, searchVars,
                   dashboardVars, renderVars, photoStore, photoVars>>

UpdateService(uid, serviceId, col, val) ==
    /\ servicesTable' = UpdateServices(servicesTable, uid, serviceId, col, val)
    /\ UNCHANGED <<bookingsTable, profilesTable, net, profile, bookings, loading,
                   consoleErrors, alerts, now, envVars, analyticsVars, searchVars,
                   dashboardVars, renderVars, photoStore, photoVars>>

DeleteService(uid, serviceId) ==
    /\ servicesTable' = DeleteServices(servicesTable, uid, serviceId)
    /\ UNCHANGED <<bookingsTable, profilesTable, net, profile, bookings, loading,
                   consoleErrors, alerts, now, envVars, analyticsVars, searchVars,
                   dashboardVars, renderVars, photoStore, photoVars>>

-----------------------------------------------------------------------------
(* Professional profile screen (ProfessionalProfileScreen): the photos.  A   *)
(* call is a run of fetchPhotos, uploadPhoto or of the Excluir handler of    *)
(* handleDeletePhoto; pc says which await it is at, and whether the backend  *)
(* has answered it.                                                          *)

InitialPhotoIds == {1, 2}

\* `${session.user.id}/${new Date().getTime()}.${fileExt}`
FileName(uid, time) == [folder |-> uid, time |-> time]

\* getPublicUrl(fileName).publicUrl: .../object/public/professional_photos/<fileName>
PublicUrl(fileName) == [bucket |-> "professional_photos", name |-> fileName]

PhotoRow(id, uid, fileName) ==
    [id |-> id, professional_id |-> uid, photo_url |-> PublicUrl(fileName),
     created_at |-> id]

\* `${p.photo_url}?t=${new Date().getTime()}`
FormatPhoto(row, time) == [id |-> row.id, url |-> [base |-> row.photo_url, t |-> time]]

\* photo.url.split('/professional_photos/')[1].split('?')[0]
PhotoPath(url) == url.base.name

\* storage policies: the first folder of the object's name is the user's id
StorageInsertPolicy(uid, name) == uid = name.folder
StorageDeletePolicy(uid, name) == uid = name.folder

\* "Professionals can insert their own photos." / "... delete their own photos."
PhotosInsertPolicy(uid, row) == uid = row.professional_id
PhotosDeletePolicy(uid, row) == uid = row.professional_id

\* the rows of a set, latest created_at first
RECURSIVE LatestFirst(_)
LatestFirst(rows) ==
    IF rows = {} THEN <<>>
    ELSE LET latest == CHOOSE r \in rows : \A q \in rows : q.created_at <= r.created_at
         IN  <<latest>> \o LatestFirst(rows \ {latest})

\* select('id, photo_url').eq('professional_id', id).order('created_at', desc)
SelectPhotos(uid) == LatestFirst({row \in photosTable : row.professional_id = uid})

NoPhoto == [id |-> 0, url |-> [base |-> PublicUrl(FileName(Null, 0)), t |-> 0]]

PhotoCall(s, n, fn, pc) ==
    [sess |-> s, n |-> n, fn |-> fn, pc |-> pc, error |-> FALSE,
     photo |-> NoPhoto, captured |-> <<>>, fileName |-> FileName(Null, 0), data |-> <<>>]

\* failures of the photo calls so far: handled, and on their way back
PhotoFaults == SumOver(PhotoSessions, consoleErrors) + Cardinality({c \in photoCalls : c.error})

\* an upload in progress will call fetchPhotos when it succeeds
ReservedTicks == Cardinality({c \in photoCalls : c.fn = "uploadPhoto"})

PhotoRoom(ticks) ==
    /\ Cardinality(photoCalls) < MaxInFlight
    /\ now + ReservedTicks + ticks <= MaxTime

\* useEffect(() => { if (profile?.id) fetchPhotos() }, [profile?.id])
PhotoProfileLoaded(s) ==
    /\ s \in PhotoSessions
    /\ profile[s] = NoProfile
    /\ PhotoRoom(1)
    /\ profile' = [profile EXCEPT ![s] = profilesTable[UserOf(s)]]
    /\ photoCalls' = photoCalls \cup {PhotoCall(s, now, "fetchPhotos", "select")}
    /\ now' = now + 1
    /\ UNCHANGED <<bookingsTable, servicesTable, profilesTable, net, bookings, loading,
                   consoleErrors, alerts, envVars, analyticsVars, searchVars,
                   dashboardVars, renderVars, photoStore, photos, uploading>>

\* the backend answers the select of fetchPhotos
StoreSelectPhotos(c) ==
    /\ c \in photoCalls /\ c.pc = "select"
    /\ photoCalls' = (photoCalls \ {c}) \cup
                     {[c EXCEPT !.pc = "selected", !.data = SelectPhotos(UserOf(c.sess))]}
    /\ UNCHANGED <<bookingsTable, servicesTable, profilesTable, net, profile, bookings,
                   loading, consoleErrors, alerts, now, envVars, analyticsVars,
                   searchVars, dashboardVars, renderVars, photoStore, photos, uploading>>

\* fetchPhotos after its await: alert on error, else setPhotos(formattedPhotos)
FetchPhotosResume(c) ==
    /\ c \in photoCalls /\ c.pc = "selected"
    /\ IF c.error
       THEN /\ consoleErrors' = [consoleErrors EXCEPT ![c.sess] = @ + 1]
            /\ alerts' = [alerts EXCEPT ![c.sess] = @ + 1]
            /\ UNCHANGED photos
       ELSE /\ photos' = [i \in 1..Len(c.data) |-> FormatPhoto(c.data[i], now)]
            /\ UNCHANGED <<consoleErrors, alerts>>
    /\ photoCalls' = photoCalls \ {c}
    /\ UNCHANGED <<bookingsTable, servicesTable, profilesTable, net, profile, bookings,
                   loading, now, envVars, analyticsVars, searchVars, dashboardVars,
                   renderVars, photoStore, uploading>>

\* Adicionar, a picked image, uploadPhoto up to the await of the storage upload
StartUpload(s) ==
    /\ s \in PhotoSessions
    /\ profile[s] # NoProfile
    /\ ~uploading
    /\ PhotoRoom(2)
    /\ uploading' = TRUE
    /\ photoCalls' = photoCalls \cup
          {[PhotoCall(s, now, "uploadPhoto", "upload")
                EXCEPT !.fileName = FileName(UserOf(s), now)]}
    /\ now' = now + 1
    /\ UNCHANGED <<bookingsTable, servicesTable, profilesTable, net, profile, bookings,
                   loading, consoleErrors, alerts, envVars, analyticsVars, searchVars,
                   dashboardVars, renderVars, photoStore, photos>>

\* storage.from('professional_photos').upload(fileName, formData, { upsert: false })
StorageUpload(c) ==
    /\ c \in photoCalls /\ c.pc = "upload"
    /\ StorageInsertPolicy(UserOf(c.sess), c.fileName) /\ c.fileName \notin bucket
    /\ bucket' = bucket \cup {c.fileName}
    /\ photoCalls' = (photoCalls \ {c}) \cup {[c EXCEPT !.pc = "uploaded"]}
    /\ UNCHANGED <<bookingsTable, servicesTable, profilesTable, net, profile, bookings,
                   loading, consoleErrors, alerts, now, envVars, analyticsVars,
                   searchVars, dashboardVars, renderVars, photosTable,
                   photos, uploading>>

\* the catch and finally blocks of uploadPhoto
UploadFailed(c) ==
    /\ consoleErrors' = [consoleErrors EXCEPT ![c.sess] = @ + 1]
    /\ alerts' = [alerts EXCEPT ![c.sess] = @ + 1]
    /\ uploading' = FALSE
    /\ photoCalls' = photoCalls \ {c}
    /\ UNCHANGED now

\* uploadPhoto after the upload: throw uploadError, else getPublicUrl and the insert
UploadAfterStorage(c) ==
    /\ c \in photoCalls /\ c.pc = "uploaded"
    /\ IF c.error
       THEN UploadFailed(c)
       ELSE /\ photoCalls' = (photoCalls \ {c}) \cup {[c EXCEPT !.pc = "insert"]}
            /\ UNCHANGED <<consoleErrors, alerts, uploading, now>>
    /\ UNCHANGED <<bookingsTable, servicesTable, profilesTable, net, profile, bookings,
                   loading, envVars, analyticsVars, searchVars, dashboardVars,
                   renderVars, photoStore, photos>>

\* from('professional_photos').insert({ professional_id, photo_url })
StoreInsertPhoto(c) ==
    /\ c \in photoCalls /\ c.pc = "insert"
    /\ LET row == PhotoRow(Cardinality(InitialPhotoIds) + 1 + c.n, UserOf(c.sess), c.fileName)
       IN  /\ PhotosInsertPolicy(UserOf(c.sess), row)
           /\ photosTable' = photosTable \cup {row}
    /\ photoCalls' = (photoCalls \ {c}) \cup {[c EXCEPT !.pc = "inserted"]}
    /\ UNCHANGED <<bookingsTable, servicesTable, profilesTable, net, profile, bookings,
                   loading, consoleErrors, alerts, now, envVars, analyticsVars,
                   searchVars, dashboardVars, renderVars, bucket,
                   photos, uploading>>

\* uploadPhoto after the insert: throw dbError, else the alert, fetchPhotos() and finally
UploadAfterInsert(c) ==
    /\ c \in photoCalls /\ c.pc = "inserted"
    /\ IF c.error
       THEN UploadFailed(c)
       ELSE /\ alerts' = [alerts EXCEPT ![c.sess] = @ + 1]
            /\ uploading' = FALSE
            /\ photoCalls' = (photoCalls \ {c}) \cup
                             {PhotoCall(c.sess, now, "fetchPhotos", "select")}
            /\ now' = now + 1
            /\ UNCHANGED consoleErrors
    /\ UNCHANGED <<bookingsTable, servicesTable, profilesTable, net, profile, bookings,
                   loading, envVars, analyticsVars, searchVars, dashboardVars,
                   renderVars, photoStore, photos>>

\* a press on the trash button of a drawn photo: handleDeletePhoto shows the
\* confirmation; its Excluir handler closes over this render's photos
PressDeletePhoto(s, i) ==
    /\ s \in PhotoSessions
    /\ i \in 1..Len(photos)
    /\ \A c \in photoCalls : c.pc # "confirm"
    /\ PhotoRoom(1)
    /\ photoCalls' = photoCalls \cup
          {[PhotoCall(s, now, "handleDeletePhoto", "confirm")
                EXCEPT !.photo = photos[i], !.captured = photos]}
    /\ now' = now + 1
    /\ UNCHANGED <<bookingsTable, servicesTable, profilesTable, net, profile, bookings,
                   loading, consoleErrors, alerts, envVars, analyticsVars, searchVars,
                   dashboardVars, renderVars, photoStore, photos, uploading>>

\* Cancelar on the confirmation
CancelDeletePhoto(c) ==
    /\ c \in photoCalls /\ c.pc = "confirm"
    /\ photoCalls' = photoCalls \ {c}
    /\ UNCHANGED <<bookingsTable, servicesTable, profilesTable, net, profile, bookings,
                   loading, consoleErrors, alerts, now, envVars, analyticsVars,
                   searchVars, dashboardVars, renderVars, photoStore, photos, uploading>>

\* Excluir on the confirmation, up to the await of the storage removal
ConfirmDeletePhoto(c) ==
    /\ c \in photoCalls /\ c.pc = "confirm"
    /\ photoCalls' = (photoCalls \ {c}) \cup {[c EXCEPT !.pc = "remove"]}
    /\ UNCHANGED <<bookingsTable, servicesTable, profilesTable, net, profile, bookings,
                   loading, consoleErrors, alerts, now, envVars, analyticsVars,
                   searchVars, dashboardVars, renderVars, photoStore, photos, uploading>>

\* storage.from('professional_photos').remove([photoPath]): an object that is
\* not there, or not the user's, is skipped without an error
StorageRemove(c) ==
    /\ c \in photoCalls /\ c.pc = "remove"
    /\ bucket' = {name \in bucket : ~(/\ name = PhotoPath(c.photo.url)
                                      /\ StorageDeletePolicy(UserOf(c.sess), name))}
    /\ photoCalls' = (photoCalls \ {c}) \cup {[c EXCEPT !.pc = "removed"]}
    /\ UNCHANGED <<bookingsTable, servicesTable, profilesTable, net, profile, bookings,
                   loading, consoleErrors, alerts, now, envVars, analyticsVars,
                   searchVars, dashboardVars, renderVars, photosTable,
                   photos, uploading>>

\* the catch block of the Excluir handler
DeleteFailed(c) ==
    /\ consoleErrors' = [consoleErrors EXCEPT ![c.sess] = @ + 1]
    /\ alerts' = [alerts EXCEPT ![c.sess] = @ + 1]
    /\ photoCalls' = photoCalls \ {c}
    /\ UNCHANGED photos

\* the handler after the removal: throw storageError, else the delete of the row
DeleteAfterStorage(c) ==
    /\ c \in photoCalls /\ c.pc = "removed"
    /\ IF c.error
       THEN DeleteFailed(c)
       ELSE /\ photoCalls' = (photoCalls \ {c}) \cup {[c EXCEPT !.pc = "delete"]}
            /\ UNCHANGED <<consoleErrors, alerts, photos>>
    /\ UNCHANGED <<bookingsTable, servicesTable, profilesTable, net, profile, bookings,
                   loading, now, envVars, analyticsVars, searchVars, dashboardVars,
                   renderVars, photoStore, uploading>>

\* from('professional_photos').delete().eq('id', photo.id)
StoreDeletePhoto(c) ==
    /\ c \in photoCalls /\ c.pc = "delete"
    /\ photosTable' = {row \in photosTable :
                          ~(row.id = c.photo.id /\ PhotosDeletePolicy(UserOf(c.sess), row))}
    /\ photoCalls' = (photoCalls \ {c}) \cup {[c EXCEPT !.pc = "deleted"]}
    /\ UNCHANGED <<bookingsTable, servicesTable, profilesTable, net, profile, bookings,
                   loading, consoleErrors, alerts, now, envVars, analyticsVars,
                   searchVars, dashboardVars, renderVars, bucket,
                   photos, uploading>>

\* the handler after the delete: throw dbError, else the alert and
\* setPhotos(photos.filter((p) => p.id !== photo.id)) on the photos it closed over
DeleteAfterRow(c) ==
    /\ c \in photoCalls /\ c.pc = "deleted"
    /\ IF c.error
       THEN DeleteFailed(c)
       ELSE /\ alerts' = [alerts EXCEPT ![c.sess] = @ + 1]
            /\ photos' = SelectSeq(c.captured, LAMBDA p : p.id # c.photo.id)
            /\ photoCalls' = photoCalls \ {c}
            /\ UNCHANGED consoleErrors
    /\ UNCHANGED <<bookingsTable, servicesTable, profilesTable, net, profile, bookings,
                   loading, now, envVars, analyticsVars, searchVars, dashboardVars,
                   renderVars, photoStore, uploading>>

\* the backend answers a storage or database call with an error
PhotoBackendFails(c) ==
    /\ c \in photoCalls
    /\ c.pc \in {"select", "upload", "insert", "remove", "delete"}
    /\ PhotoFaults < MaxFailures
    /\ photoCalls' = (photoCalls \ {c}) \cup
          {[c EXCEPT !.error = TRUE,
                     !.pc = CASE c.pc = "select" -> "selected"
                              [] c.pc = "upload" -> "uploaded"
                              [] c.pc = "insert" -> "inserted"
                              [] c.pc = "remove" -> "removed"
                              [] c.pc = "delete" -> "deleted"]}
    /\ UNCHANGED <<bookingsTable, servicesTable, profilesTable, net, profile, bookings,
                   loading, consoleErrors, alerts, now, envVars, analyticsVars,
                   searchVars, dashboardVars, renderVars, photoStore, photos, uploading>>

-----------------------------------------------------------------------------
(* Analytics screen: the month labels of the revenue chart *)

\* months[(currentMonth - (5 - monthIndex) + 12) % 12], as the number of the
\* month (1 for 'Jan'); new Date().getMonth() is the local month less one
getMonthName(monthIndex, current) ==
    (((current.month - 1) - (5 - monthIndex) + 12) % 12) + 1

\* a render of the chart: analyticsData.monthlyRevenue.map(... getMonthName(index))
AnalyticsRender(s) ==
    /\ s \in AnalyticsSessions
    /\ chartLabels' = [i \in 1..Len(analyticsData.monthlyRevenue) |->
                          getMonthName(i - 1, today)]
    /\ UNCHANGED <<bookingsTable, servicesTable, profilesTable, net, profile, bookings,
                   loading, consoleErrors, alerts, now, envVars, analyticsVars,
                   searchVars, dashboardVars, clientRender, photoStore, photoVars>>

\* the screen stays open past the end of the month
MonthTurns ==
    /\ today.day # 1
    /\ today' = IF today.month < 12 THEN Date(today.year, today.month + 1, 1)
                ELSE Date(today.year + 1, 1, 1)
    /\ UNCHANGED <<bookingsTable, servicesTable, profilesTable, net, profile, bookings,
                   loading, consoleErrors, alerts, now, tzWest, analyticsVars,
                   searchVars, dashboardVars, renderVars, photoStore, photoVars>>

-----------------------------------------------------------------------------
(* The booking lifecycle: two sessions of one professional *)

\* no photo has been uploaded yet
NoPhotosStored == photosTable = {} /\ bucket = {}

\* the bookings screen of the client has not drawn its list yet
NotRendered ==
    [drawn |-> FALSE, at |-> [date |-> Date(0, 1, 1), ms |-> 0],
     upcoming |-> <<>>, past |-> <<>>]

InitScreens ==
    /\ net = {}
    /\ profile = [s \in Sessions |-> NoProfile]
    /\ bookings = [s \in Sessions |-> <<>>]
    /\ loading = [s \in Sessions |-> s \notin SearchSessions]
    /\ consoleErrors = [s \in Sessions |-> 0]
    /\ alerts = [s \in Sessions |-> 0]
    /\ analyticsData = InitialAnalyticsData
    /\ selectedPeriod = "month"
    /\ services = <<>>
    /\ filteredServices = <<>>
    /\ searchQuery = <<>>
    /\ selectedFilters = <<>>
    /\ stats = InitialStats
    /\ recentBookings = <<>>
    /\ clientRender = NotRendered
    /\ chartLabels = <<>>
    /\ photos = <<>>
    /\ uploading = FALSE
    /\ photoCalls = {}

InitState ==
    /\ bookingsTable = [b \in BookingIds |-> InitialBooking(b)]
    /\ servicesTable = [s \in ServiceIds |-> InitialService(s)]
    /\ profilesTable = [u \in Users |-> InitialProfile(u)]
    /\ NoPhotosStored
    /\ today = Date(2025, 3, 15)
    /\ InitScreens

\* the devices run in a time zone behind UTC (America/Sao_Paulo)
Init == InitState /\ now = 0 /\ tzWest = TRUE

\* the professional bookings screens of the sessions in P
ProNext(P) ==
    \/ \E s \in P : ProProfileLoaded(s)
    \/ \E s \in P, tab \in ProTabs : ProRefresh(s, tab)
    \/ \E s \in P, tab \in ProTabs, i \in BookingIds :
          \E button \in {"Recusar", "Aceitar", "Finalizar"} : ProPressButton(s, tab, i, button)
    \/ \E r \in net : ProLoadBookingsOk(r)
    \/ \E r \in net : ProLoadBookingsError(r)
    \/ \E r \in net : ProLoadBookingsThrow(r)
    \/ \E r \in net : UpdateOk(r)
    \/ \E r \in net : UpdateError(r)
    \/ \E r \in net : UpdateThrow(r)

\* the client bookings screens
ClientNext ==
    \/ \E s \in ClientSessions : ClientProfileLoaded(s)
    \/ \E s \in ClientSessions : ClientRefresh(s)
    \/ \E s \in ClientSessions, i \in BookingIds :
          \E button \in {"Cancelar", "Contatar"} : ClientPressButton(s, i, button)
    \/ \E r \in net : ClientLoadBookingsOk(r)
    \/ \E r \in net : ClientLoadBookingsError(r)
    \/ \E r \in net : ClientLoadBookingsThrow(r)

\* the backend
StoreNext ==
    \/ \E r \in net : StoreSelect(r)
    \/ \E r \in net : StoreUpdate(r)
    \/ \E r \in net : StoreError(r)

Next == ProNext(ProSessions) \/ StoreNext

Spec == Init /\ [][Next]_vars

(* One session of the professional and one of the client *)

NextBothRoles == ProNext({"p1"}) \/ ClientNext \/ StoreNext

SpecBothRoles == Init /\ [][NextBothRoles]_vars

(* The fetching screens: the bookings, analytics and search screens *)

AnalyticsNext ==
    \/ \E s \in AnalyticsSessions : AnalyticsProfileLoaded(s)
    \/ \E s \in AnalyticsSessions, period \in Periods : SetSelectedPeriod(s, period)
    \/ \E r \in net : LoadAnalyticsOk(r)
    \/ \E r \in net : LoadAnalyticsError(r)
    \/ \E r \in net : LoadAnalyticsThrow(r)

SearchFetchNext ==
    \/ \E s \in SearchSessions : SearchLoadServices(s)
    \/ \E r \in net : LoadServicesOk(r)
    \/ \E r \in net : LoadServicesError(r)
    \/ \E r \in net : LoadServicesThrow(r)

\* the screens open one tick into the clock, in either kind of time zone
InitFetch == InitState /\ now = 1 /\ tzWest \in BOOLEAN

NextFetch == ProNext({"p1"}) \/ AnalyticsNext \/ SearchFetchNext \/ StoreNext

SpecFetch == InitFetch /\ [][NextFetch]_vars

(* The aggregation over booking lists: the analytics screen run once on   *)
(* each table of a bounded family                                         *)

StatusChoices == booking_status

\* event dates around the two current dates: the first day and a later day
\* of March 2025, five and six months before it, and the month after it
EventDates ==
    {Date(2025, 3, 1), Date(2025, 3, 20), Date(2024, 10, 10), Date(2024, 9, 10),
     Date(2025, 4, 10)}

CurrentDates == {Date(2025, 3, 15), Date(2025, 1, 31)}

\* a booking of professional proA, row i of the table
BookingRow(i, status, date, price, service) ==
    [InitialBooking(i) EXCEPT !.professional_id = "proA", !.status = status,
                              !.event_date = date, !.total_price = price,
                              !.service_id = service, !.created_at = i]

\* a service of professional proA with the given title
ServiceRow(s, title) ==
    [InitialService(s) EXCEPT !.professional_id = "proA", !.title = title]

Digit(i) == <<"0", "1", "2", "3", "4", "5", "6", "7", "8", "9">>[(i % 10) + 1]

\* few rows, every status and date: row i costs 100 * 2^(i-1), so that a sum
\* tells which rows are in it
InitFewRows ==
    /\ servicesTable = [s \in ServiceIds |-> InitialService(s)]
    /\ \E n \in 0..MaxRows :
         \E st \in [1..n -> StatusChoices], dt \in [1..n -> EventDates] :
            bookingsTable = [i \in 1..n |-> BookingRow(i, st[i], dt[i], 100 * (2 ^ (i - 1)), 1)]
    /\ today \in CurrentDates
    /\ tzWest \in BOOLEAN

\* many rows, each of its own service: service 1 has an empty title, services
\* 2 and 3 may share one, and service 2 may be titled "constructor"
InitManyTitles ==
    /\ \E titles \in {"distinct", "shared", "inherited"} :
         servicesTable =
            [s \in 1..MaxTitles |->
                ServiceRow(s, IF s = 1 THEN <<>>
                              ELSE IF titles = "shared" /\ s = 3 THEN Text("t", Digit(2))
                              ELSE IF titles = "inherited" /\ s = 2
                              THEN <<"c", "o", "n", "s", "t", "r", "u", "c", "t", "o", "r">>
                              ELSE Text("t", Digit(s)))]
    /\ \E n \in 0..MaxTitles :
         \E st \in [1..n -> {"completed", "confirmed", "cancelled"}] :
            bookingsTable =
                [i \in 1..n |-> BookingRow(i, st[i], Date(2025, 3, 10),
                                           100 * (1 + ((2 * i) % 3)), i)]
    /\ today = Date(2025, 3, 15)
    /\ tzWest = TRUE

InitAnalytics ==
    /\ InitFewRows \/ InitManyTitles
    /\ profilesTable = [u \in Users |-> InitialProfile(u)]
    /\ NoPhotosStored
    /\ now = 0
    /\ InitScreens

\* one load of the analytics screen
NextAnalytics ==
    \/ \E s \in AnalyticsSessions : AnalyticsProfileLoaded(s)
    \/ \E r \in net : StoreSelect(r)
    \/ \E r \in net : LoadAnalyticsOk(r)

SpecAnalytics == InitAnalytics /\ [][NextAnalytics]_vars

(* The booking counts: the analytics screen and the dashboard of professional *)
(* proA, each loading once, on tables shared with another professional      *)

StatusOfRow(i) ==
    <<"pending", "confirmed", "completed", "cancelled">>[(i % 4) + 1]

InitTotals ==
    /\ servicesTable = [s \in ServiceIds |-> InitialService(s)]
    /\ \E n \in 0..MaxTitles :
         \E owner \in [1..n -> {"proA", "proB"}] :
            bookingsTable =
                [i \in 1..n |->
                    [BookingRow(i, StatusOfRow(i), Date(2025, 3, 10), 100 * i, 1)
                     EXCEPT !.professional_id = owner[i]]]
    /\ profilesTable = [u \in Users |-> InitialProfile(u)]
    /\ NoPhotosStored
    /\ today = Date(2025, 3, 15)
    /\ tzWest \in BOOLEAN
    /\ now = 0
    /\ InitScreens

NextTotals ==
    \/ \E s \in AnalyticsSessions : AnalyticsProfileLoaded(s)
    \/ \E s \in DashboardSessions : DashboardProfileLoaded(s)
    \/ \E r \in net : StoreSelect(r)
    \/ \E r \in net : LoadAnalyticsOk(r)
    \/ \E r \in net : LoadDashboardOk(r)

SpecTotals == InitTotals /\ [][NextTotals]_vars

(* The analytics screen reloading while the professional's bookings screen   *)
(* completes a confirmed booking                                             *)

InitRecompute ==
    /\ bookingsTable =
          [b \in BookingIds |->
              IF b = 1 THEN [InitialBooking(b) EXCEPT !.status = "confirmed"]
              ELSE InitialBooking(b)]
    /\ servicesTable = [s \in ServiceIds |-> InitialService(s)]
    /\ profilesTable = [u \in Users |-> InitialProfile(u)]
    /\ NoPhotosStored
    /\ today = Date(2025, 3, 15)
    /\ tzWest = TRUE
    /\ now = 0
    /\ InitScreens

NextRecompute == ProNext({"p1"}) \/ AnalyticsNext \/ StoreNext

SpecRecompute == InitRecompute /\ [][NextRecompute]_vars

(* The search screen, loading once, over a bounded family of service tables *)
(* and queries                                                              *)

\* a service row with its texts, owner and price
SearchService(s, title, description, location, owner, price) ==
    [InitialService(s) EXCEPT !.title = title, !.description = description,
                              !.location = location, !.professional_id = owner,
                              !.price_from = price]

\* the spec's example prices, prices at and next to the two thresholds, and
\* two cheap services with a dear one between them
PriceLists == {<<400, 900, 600>>, <<500, 800, 799>>, <<300, 900, 450>>}

\* one service matched by its title only, one by its description or its
\* owner's name only, one by its location only and without a joined owner
SearchServices(prices) ==
    <<SearchService(1, Text("A", "x"), Text("x", "x"), Text("x", "x"), "proB", prices[1]),
      SearchService(2, Text("x", "x"), Text("x", "B"), Text("x", "x"), "proA", prices[2]),
      SearchService(3, Text("x", "x"), Text("x", "x"), Text("c", "x"), "gone", prices[3])>>

SearchProfile(u) ==
    [InitialProfile(u) EXCEPT !.full_name = IF u = "proA" THEN Text("D", "x")
                                            ELSE Text("x", "x")]

\* what the user types or pastes into the search bar
Queries ==
    {<<>>, <<" ">>, <<"a">>, <<"b">>, <<"C">>, <<"d">>, <<"x">>, <<"z">>, <<" ", "a">>}

InitSearch ==
    /\ bookingsTable = [b \in BookingIds |-> InitialBooking(b)]
    /\ \E prices \in PriceLists : servicesTable = SearchServices(prices)
    /\ profilesTable = [u \in Users |-> SearchProfile(u)]
    /\ NoPhotosStored
    /\ today = Date(2025, 3, 15)
    /\ tzWest = TRUE
    /\ now = MaxTime - 1
    /\ InitScreens

NextSearch ==
    \/ \E s \in SearchSessions : SearchLoadServices(s)
    \/ \E s \in SearchSessions, query \in Queries : SetSearchQuery(s, query)
    \/ \E s \in SearchSessions, filterKey \in FilterKeys : ToggleFilter(s, filterKey)
    \/ \E r \in net : StoreSelect(r)
    \/ \E r \in net : LoadServicesOk(r)

SpecSearch == InitSearch /\ [][NextSearch]_vars

(* The tabs of the client's bookings screen: one load, then renders at the   *)
(* instants of the day, over bookings of every status dated the day before,  *)
(* the day and the day after                                                 *)

TabDates == {Date(2025, 3, 14), Date(2025, 3, 15), Date(2025, 3, 16)}

InitTabs ==
    /\ servicesTable = [s \in ServiceIds |-> InitialService(s)]
    /\ \E n \in 0..MaxRows :
         \E st \in [1..n -> booking_status], dt \in [1..n -> TabDates] :
            bookingsTable =
                [i \in 1..n |-> [InitialBooking(i) EXCEPT !.status = st[i],
                                                          !.event_date = dt[i]]]
    /\ profilesTable = [u \in Users |-> InitialProfile(u)]
    /\ NoPhotosStored
    /\ today = Date(2025, 3, 15)
    /\ tzWest \in BOOLEAN
    /\ now = MaxTime - 1
    /\ InitScreens

NextTabs ==
    \/ \E s \in ClientSessions : ClientProfileLoaded(s)
    \/ \E r \in net : StoreSelect(r)
    \/ \E r \in net : ClientLoadBookingsOk(r)
    \/ \E s \in ClientSessions, instant \in Instants(today, tzWest) :
          ClientRenderList(s, instant)

SpecTabs == InitTabs /\ [][NextTabs]_vars

(* The tables under writes through the data API *)

\* the users a call can name: the three profiles and an id with no profile
NamedUsers == Users \cup {"gone"}

NextInserts ==
    \E uid \in Users, client \in NamedUsers, professional \in NamedUsers,
       service \in 0..NumServices :
          InsertBooking(uid, client, professional, service)

SpecInserts == Init /\ [][NextInserts]_vars

ServicePrices == {400, 900}

\* a column and a value for it
ServicePatches ==
    {<<"price_from", price>> : price \in ServicePrices}
        \cup {<<"professional_id", u>> : u \in NamedUsers}

NextServices ==
    \/ \E uid \in Users, owner \in NamedUsers, price \in ServicePrices :
          InsertService(uid, owner, price)
    \/ \E uid \in Users, serviceId \in 1..(NumServices + 1), patch \in ServicePatches :
          UpdateService(uid, serviceId, patch[1], patch[2])
    \/ \E uid \in Users, serviceId \in 1..(NumServices + 1) : DeleteService(uid, serviceId)

SpecServices == Init /\ [][NextServices]_vars

(* One session of the professional, alone with the store *)

NextOnePro == ProNext({"p1"}) \/ StoreNext

SpecOnePro == Init /\ [][NextOnePro]_vars

(* The photos of professional proA, two of them stored before the session *)

InitPhotos ==
    /\ bookingsTable = [b \in BookingIds |-> InitialBooking(b)]
    /\ servicesTable = [s \in ServiceIds |-> InitialService(s)]
    /\ profilesTable = [u \in Users |-> InitialProfile(u)]
    /\ photosTable = {PhotoRow(id, "proA", FileName("proA", id - 10)) : id \in InitialPhotoIds}
    /\ bucket = {FileName("proA", id - 10) : id \in InitialPhotoIds}
    /\ today = Date(2025, 3, 15)
    /\ tzWest = TRUE
    /\ now = 0
    /\ InitScreens

NextPhotos ==
    \/ \E s \in PhotoSessions : PhotoProfileLoaded(s)
    \/ \E s \in PhotoSessions : StartUpload(s)
    \/ \E s \in PhotoSessions, i \in 1..Len(photos) : PressDeletePhoto(s, i)
    \/ \E c \in photoCalls : StoreSelectPhotos(c)
    \/ \E c \in photoCalls : FetchPhotosResume(c)
    \/ \E c \in photoCalls : StorageUpload(c)
    \/ \E c \in photoCalls : UploadAfterStorage(c)
    \/ \E c \in photoCalls : StoreInsertPhoto(c)
    \/ \E c \in photoCalls : UploadAfterInsert(c)
    \/ \E c \in photoCalls : CancelDeletePhoto(c)
    \/ \E c \in photoCalls : ConfirmDeletePhoto(c)
    \/ \E c \in photoCalls : StorageRemove(c)
    \/ \E c \in photoCalls : DeleteAfterStorage(c)
    \/ \E c \in photoCalls : StoreDeletePhoto(c)
    \/ \E c \in photoCalls : DeleteAfterRow(c)
    \/ \E c \in photoCalls : PhotoBackendFails(c)

SpecPhotos == InitPhotos /\ [][NextPhotos]_vars

(* The revenue chart: one load and renders, the month turning at any point, *)
(* over completed and confirmed bookings of every event date                *)

InitChart ==
    /\ servicesTable = [s \in ServiceIds |-> InitialService(s)]
    /\ \E n \in 0..MaxRows :
         \E st \in [1..n -> {"completed", "confirmed"}], dt \in [1..n -> EventDates] :
            bookingsTable = [i \in 1..n |-> BookingRow(i, st[i], dt[i], 100 * (2 ^ (i - 1)), 1)]
    /\ profilesTable = [u \in Users |-> InitialProfile(u)]
    /\ NoPhotosStored
    /\ today \in CurrentDates
    /\ tzWest \in BOOLEAN
    /\ now = MaxTime - 1
    /\ InitScreens

NextChart ==
    \/ \E s \in AnalyticsSessions : AnalyticsProfileLoaded(s)
    \/ \E r \in net : StoreSelect(r)
    \/ \E r \in net : LoadAnalyticsOk(r)
    \/ \E s \in AnalyticsSessions : AnalyticsRender(s)
    \/ MonthTurns

SpecChart == InitChart /\ [][NextChart]_vars

TypeOK ==
    /\ \A b \in BookingIds : bookingsTable[b].status \in booking_status
    /\ Cardinality(net) <= MaxInFlight

-----------------------------------------------------------------------------
(* The transition table of the booking lifecycle and its allowed actors *)

TransitionTable ==
    {<<"pending", "confirmed">>, <<"pending", "cancelled">>,
     <<"confirmed", "completed">>, <<"confirmed", "cancelled">>}

AllowedActors(from, to) ==
    IF to = "cancelled" THEN {"professional", "client"} ELSE {"professional"}

Terminal == {"cancelled", "completed"}

StoredStatus(b) == bookingsTable[b].status

\* the update requests the store applies in a step
Applied == {r \in net : /\ r.op = "update" /\ r.phase = "sent"
                        /\ [r EXCEPT !.phase = "done"] \in net'}

\* the requests whose awaiting handler resumes in a step
Resumed == {r \in net : \A q \in net' : q.n # r.n}

\* the requests issued in a step
Issued == {q \in net' : \A r \in net : r.n # q.n}

-----------------------------------------------------------------------------
(* C1: once a booking's stored status is cancelled or completed it never     *)
(* changes again, whatever updateBookingStatus calls the professional        *)
(* bookings screens issue.                                                   *)
C1_TerminalIsFinal ==
    [][\A b \in BookingIds :
          StoredStatus(b) \in Terminal => bookingsTable'[b].status = StoredStatus(b)]_vars

(* C2: a request whose (stored status, requested status) pair is not in the  *)
(* transition table is rejected before any write: the stored row (status and *)
(* updated_at) changes only by a transition of the table.                    *)
C2_InvalidRejected ==
    [][\A b \in BookingIds :
          bookingsTable'[b] # bookingsTable[b]
            => <<StoredStatus(b), bookingsTable'[b].status>> \in TransitionTable]_vars

(* C3: the stored status that directly follows pending is confirmed or       *)
(* cancelled, never completed: no step takes a pending booking to completed. *)
C3_PendingNext ==
    [][\A b \in BookingIds :
          StoredStatus(b) = "pending"
            => bookingsTable'[b].status \in {"pending", "confirmed", "cancelled"}]_vars

\* a booking has left pending by an update of a professional session
C3_Witness ==
    /\ StoredStatus(1) \in {"confirmed", "cancelled"}
    /\ \E r \in net : r.op = "update" /\ r.phase = "done" /\ r.id = 1 /\ ~r.error

(* C4: no lock, version or token coordinates concurrent updates: every       *)
(* update the store answers without error has been applied whatever the      *)
(* row's status was, so the stored status is that of the write applied last. *)
C4_LastWriterWins ==
    [][\A r \in Applied :
          /\ bookingsTable'[r.id].status = r.patch.status
          /\ bookingsTable'[r.id].updated_at = r.patch.updated_at]_vars

\* two sessions that both showed the booking as pending have issued different
\* targets; the store has accepted both, the confirmation last
C4_Witness ==
    \E r1, r2 \in net :
        /\ r1.sess # r2.sess
        /\ r1.op = "update" /\ r2.op = "update"
        /\ r1.id = 1 /\ r2.id = 1
        /\ r1.patch.status = "cancelled" /\ r2.patch.status = "confirmed"
        /\ r1.phase = "done" /\ r2.phase = "done"
        /\ ~r1.error /\ ~r2.error
        /\ StoredStatus(1) = "confirmed"
        /\ bookingsTable[1].updated_at = r2.patch.updated_at

\* the statuses a session's screen offers to write for an item it shows
Offered(s, item) ==
    IF s \in ProSessions
    THEN {ProOnPress(button) : button \in ProButtons(item)}
    ELSE {ClientOnPress(button) : button \in ClientButtons(item)} \ {Null}

(* C5: every transition of the table is available to each allowed actor:     *)
(* when a booking's stored and displayed status is the From status, the      *)
(* actor's screen offers an action that writes the To status.                *)
C5_AllTransitionsOffered ==
    \A s \in Sessions : \A i \in 1..Len(bookings[s]) :
        LET item == bookings[s][i] IN
        item.status = StoredStatus(item.id) =>
            \A to \in booking_status :
                /\ <<item.status, to>> \in TransitionTable
                /\ UserType(UserOf(s)) \in AllowedActors(item.status, to)
                => to \in Offered(s, item)

(* C6: every write of a status is issued by a professional session: no       *)
(* operation of the client bookings screen sends an update to the store,     *)
(* and the stored status changes only by a professional session's update.    *)
C6_OnlyProfessionalWrites ==
    /\ [](\A r \in net : r.op = "update" => UserType(UserOf(r.sess)) = "professional")
    /\ [][\A b \in BookingIds :
            bookingsTable'[b].status # StoredStatus(b)
              => \E r \in Applied : /\ r.id = b
                                    /\ r.patch.status = bookingsTable'[b].status
                                    /\ UserType(UserOf(r.sess)) = "professional"]_vars

\* the client's screen draws Cancelar on its pending booking, which a
\* professional session has meanwhile confirmed
C6_Witness ==
    /\ \E i \in 1..Len(bookings["c1"]) :
          /\ bookings["c1"][i].id = 1
          /\ "Cancelar" \in ClientButtons(bookings["c1"][i])
    /\ StoredStatus(1) = "confirmed"

\* a row without the two fields a status transition sets
Rest(row) == [row EXCEPT !.status = Null, !.updated_at = 0]

(* C7: a status transition changes only status and updated_at of the one     *)
(* booking whose id is given, in a single write: the other fields of that    *)
(* row and every other booking, service and profile are unchanged.           *)
C7_Frame ==
    [][/\ \A b \in BookingIds : Rest(bookingsTable'[b]) = Rest(bookingsTable[b])
       /\ \A b \in BookingIds :
            bookingsTable'[b] # bookingsTable[b] => Applied # {} /\ \A r \in Applied : r.id = b
       /\ servicesTable' = servicesTable
       /\ profilesTable' = profilesTable]_vars

\* booking 1 has been cancelled at a later time than it was created
C7_Witness ==
    /\ StoredStatus(1) = "cancelled"
    /\ bookingsTable[1].updated_at > 0
    /\ \A b \in BookingIds \ {1} : bookingsTable[b] = InitialBooking(b)

(* C8: a step in which a fetch (loadBookings, loadServices,                  *)
(* loadAnalyticsData) or a status update resumes with an error or with a     *)
(* thrown exception leaves the bookings lists, the services list and         *)
(* analyticsData exactly as they were.                                       *)

\* the requests whose handler resumes on its error or catch path in a step
Failed == {r \in Resumed : r.error \/ consoleErrors'[r.sess] # consoleErrors[r.sess]}

C8_FailureKeepsData ==
    [][Failed # {} => UNCHANGED <<bookings, services, filteredServices, analyticsData>>]_vars

\* the analytics screen holds computed figures and one of its fetches has failed
C8_Witness ==
    /\ analyticsData # InitialAnalyticsData
    /\ consoleErrors["a1"] > 0

(* C9: every failed backend request for bookings is surfaced to the user as  *)
(* an alert, in addition to being logged: as many alerts as logged errors.   *)
C9_FailuresAlerted ==
    \A s \in Sessions : alerts[s] = consoleErrors[s]

(* C10: an update whose write succeeds is followed by a re-fetch             *)
(* (loadBookings), one that fails or throws triggers none, and the in-memory *)
(* list changes only by taking a fetch's result.                             *)
C10_RefetchAfterUpdate ==
    [][/\ \A r \in Resumed :
            r.op = "update" =>
                IF r.phase = "done" /\ ~r.error /\ consoleErrors' = consoleErrors
                THEN \E q \in Issued : /\ q.op = "select" /\ q.sess = r.sess
                                       /\ q.val = profile[r.sess].id
                                       /\ Issued = {q}
                ELSE Issued = {} /\ consoleErrors'[r.sess] = consoleErrors[r.sess] + 1
       /\ \A s \in Sessions :
            bookings'[s] # bookings[s] =>
                \E r \in Resumed : /\ r.op = "select" /\ r.sess = s /\ r.phase = "done"
                                   /\ ~r.error /\ bookings'[s] = r.data]_vars

\* the re-fetch that a successful update issued is in flight, the list still
\* showing the status from before the update
C10_Witness ==
    \E q \in net :
        /\ q.op = "select" /\ q.caller = "updateBookingStatus"
        /\ StoredStatus(1) = "confirmed"
        /\ \E i \in 1..Len(bookings[q.sess]) :
              bookings[q.sess][i].id = 1 /\ bookings[q.sess][i].status = "pending"

-----------------------------------------------------------------------------
(* The aggregation claims *)

\* the requests with which loadAnalyticsData resumes on its data path in a step
Loaded ==
    {r \in Resumed : /\ r.sess \in AnalyticsSessions /\ r.op = "select"
                     /\ r.phase = "done" /\ ~r.error
                     /\ consoleErrors' = consoleErrors}

\* the positions of a list that hold a completed booking
CompletedAt(list) == {i \in 1..Len(list) : list[i].status = "completed"}

PriceAt(list) == [i \in 1..Len(list) |-> list[i].total_price]

(* C11: for every fetched booking list, totalRevenue is the sum of           *)
(* total_price over exactly the completed bookings: pending, confirmed and   *)
(* cancelled bookings contribute nothing.                                    *)
C11_TotalRevenue ==
    [][\A r \in Loaded :
          analyticsData'.totalRevenue = SumOver(CompletedAt(r.data), PriceAt(r.data))]_vars

\* a list with a completed and a confirmed booking has been aggregated: only
\* the completed one's price is in the total
C11_Witness ==
    /\ Len(bookingsTable) = 2
    /\ bookingsTable[1].status = "confirmed" /\ bookingsTable[2].status = "completed"
    /\ analyticsData.totalRevenue = bookingsTable[2].total_price
    /\ analyticsData.totalBookings = 2

(* C12: for every fetched booking list, completionRate is                    *)
(* completedCount / totalBookings * 100, a defined value between 0 and 100,  *)
(* and it is 0 for the empty list.                                           *)
C12_CompletionRate ==
    [][\A r \in Loaded :
          LET rate == analyticsData'.completionRate
              n == Len(r.data)
              c == Cardinality(CompletedAt(r.data))
          IN  /\ rate.den > 0
              /\ 0 <= rate.num /\ rate.num <= 100 * rate.den
              /\ n = 0 => rate.num = 0
              /\ n > 0 => rate.num * n = 100 * c * rate.den]_vars

\* one of two fetched bookings is completed: the rate is 50
C12_Witness ==
    /\ analyticsData.totalBookings = 2
    /\ analyticsData.completionRate.num = 50 * analyticsData.completionRate.den

(* C13: for every fetched booking list and current date, monthlyRevenue[i]   *)
(* (i in 0..5) is the sum of total_price over the completed bookings whose   *)
(* monthDiff, taken from the year and month of their event_date, is 5 - i:   *)
(* the current month goes to bucket 5, six or more months back and future    *)
(* months go to no bucket.                                                   *)
C13_MonthlyBuckets ==
    [][\A r \in Loaded : \A i \in 0..5 :
          analyticsData'.monthlyRevenue[i + 1] =
              SumOver({k \in CompletedAt(r.data) :
                          monthDiff(today, r.data[k].event_date) = 5 - i},
                      PriceAt(r.data))]_vars

(* C14: monthlyRevenue always has exactly 6 entries: in every reachable state *)
(* of the analytics screen analyticsData.monthlyRevenue is a sequence of     *)
(* length 6.                                                                 *)
C14_SixEntries == Len(analyticsData.monthlyRevenue) = 6

\* the title a booking is grouped under: its service's title, or the fixed
\* default label when the title is missing or empty
GroupTitle(booking) ==
    IF booking.services.title = <<>> THEN DefaultLabel ELSE booking.services.title

\* the positions of the completed bookings of a list grouped under a title
GroupAt(list, title) == {k \in CompletedAt(list) : GroupTitle(list[k]) = title}

(* C15: for every fetched booking list, each topServices entry's revenue is  *)
(* the sum of total_price, and its bookings the number, of the completed     *)
(* bookings grouped under the entry's title (the default label for a booking *)
(* without a service title); no two entries share a title and non-completed  *)
(* bookings are counted in no entry.                                         *)
C15_TopServicesGroups ==
    [][\A r \in Loaded :
          LET top == analyticsData'.topServices
          IN  /\ \A i \in 1..Len(top) :
                    /\ top[i].revenue = SumOver(GroupAt(r.data, top[i].title), PriceAt(r.data))
                    /\ top[i].bookings = Cardinality(GroupAt(r.data, top[i].title))
              /\ \A i, j \in 1..Len(top) : top[i].title = top[j].title => i = j]_vars

\* an aggregated list with a booking under the default label, two completed
\* bookings of one title, and a booking that is not completed
C15_Witness ==
    LET top == analyticsData.topServices
    IN  /\ \E i \in 1..Len(top) : top[i].title = DefaultLabel
        /\ \E i \in 1..Len(top) : top[i].bookings = 2
        /\ \E b \in 1..Len(bookingsTable) : bookingsTable[b].status = "cancelled"

\* the titles under which the completed bookings of a list are grouped
GroupTitles(list) == {GroupTitle(list[k]) : k \in CompletedAt(list)}

(* C16: for every fetched booking list, topServices has at most 5 entries,   *)
(* sorted non-increasing by revenue, and every service-title group left out  *)
(* has revenue no greater than that of every entry kept.                     *)
C16_TopFive ==
    [][\A r \in Loaded :
          LET top == analyticsData'.topServices
              kept == {top[i].title : i \in 1..Len(top)}
          IN  /\ Len(top) <= 5
              /\ \A i, j \in 1..Len(top) : i < j => top[i].revenue >= top[j].revenue
              /\ \A title \in GroupTitles(r.data) \ kept : \A i \in 1..Len(top) :
                    SumOver(GroupAt(r.data, title), PriceAt(r.data)) <= top[i].revenue]_vars

\* the same for the lists in which no title names an inherited member
C16_TopFiveOwnTitles ==
    [][\A r \in Loaded :
          GroupTitles(r.data) \cap ObjectPrototypeKeys = {} =>
          LET top == analyticsData'.topServices
              kept == {top[i].title : i \in 1..Len(top)}
          IN  /\ Len(top) <= 5
              /\ \A i, j \in 1..Len(top) : i < j => top[i].revenue >= top[j].revenue
              /\ \A title \in GroupTitles(r.data) \ kept : \A i \in 1..Len(top) :
                    SumOver(GroupAt(r.data, title), PriceAt(r.data)) <= top[i].revenue]_vars

\* the booking records of a user as professional that the store holds
RecordsOf(uid) ==
    {b \in 1..Len(bookingsTable) : bookingsTable[b].professional_id = uid}

\* the requests with which a screen's load resumes on its data path in a step
LoadedBy(S) ==
    {r \in Resumed : /\ r.sess \in S /\ r.op = "select" /\ r.phase = "done"
                     /\ ~r.error /\ consoleErrors' = consoleErrors}

(* C17: the totalBookings figure shown to a professional is the number of    *)
(* all booking records of that professional in the store, whatever their     *)
(* status, on the analytics screen and on the professional dashboard (no     *)
(* record is written between the fetch and its display here).                *)
C17_TotalBookings ==
    [][/\ \A r \in LoadedBy(AnalyticsSessions) :
            analyticsData'.totalBookings = Cardinality(RecordsOf(UserOf(r.sess)))
       /\ \A r \in LoadedBy(DashboardSessions) :
            stats'.totalBookings = Cardinality(RecordsOf(UserOf(r.sess)))]_vars

\* the same figure on the analytics screen alone
C17_AnalyticsTotalBookings ==
    [][\A r \in LoadedBy(AnalyticsSessions) :
            analyticsData'.totalBookings = Cardinality(RecordsOf(UserOf(r.sess)))]_vars

(* C18: the aggregation is recomputed from scratch: every successful         *)
(* loadAnalyticsData stores figures that are a function of the list just     *)
(* fetched and the current date alone, whatever analyticsData held before    *)
(* and whatever selectedPeriod is.                                           *)
C18_RecomputedFromScratch ==
    [][\A r \in Loaded : analyticsData' = Analytics(r.data, today, tzWest)]_vars

\* a load is about to resume, after a change of period, with a list whose
\* figures differ from the ones the screen computed before
C18_Witness ==
    \E r \in net :
        /\ r.sess \in AnalyticsSessions /\ r.phase = "done" /\ ~r.error
        /\ selectedPeriod # "month"
        /\ analyticsData # InitialAnalyticsData
        /\ analyticsData # Analytics(r.data, today, tzWest)

-----------------------------------------------------------------------------
(* The search filter claims *)

\* two characters that are the same letter, whatever their case
SameLetter(x, y) == toLowerCase(<<x>>) = toLowerCase(<<y>>)

\* the query is, case-insensitively, a substring of the text
ContainsIgnoringCase(text, query) ==
    \E offset \in 0..(Len(text) - Len(query)) :
        \A k \in 1..Len(query) : SameLetter(text[offset + k], query[k])

Blank(query) == \A k \in 1..Len(query) : query[k] = " "

\* the text predicate of the search: title, description, location or owner name
TextAccepts(service, query) ==
    \/ Blank(query)
    \/ ContainsIgnoringCase(service.title, query)
    \/ ContainsIgnoringCase(service.description, query)
    \/ ContainsIgnoringCase(service.location, query)
    \/ service.profiles.present /\ ContainsIgnoringCase(service.profiles.full_name, query)

Selected == {selectedFilters[i] : i \in 1..Len(selectedFilters)}

(* C19: for every service list, query and set of selected toggles, the       *)
(* filtered list holds exactly the services that satisfy the text predicate  *)
(* and price_from <= 500 if budget is selected and price_from >= 800 if      *)
(* premium is selected; nearby and available change nothing, and budget      *)
(* with premium gives the empty list.                                        *)
C19_FilteredList ==
    /\ filteredServices =
          SelectSeq(services,
              LAMBDA service : /\ TextAccepts(service, searchQuery)
                               /\ "budget" \in Selected => service.price_from <= 500
                               /\ "premium" \in Selected => service.price_from >= 800)
    /\ {"budget", "premium"} \subseteq Selected => filteredServices = <<>>

\* budget and a no-op toggle are selected over the loaded list: only the
\* service at the threshold or below is left
C19_Witness ==
    /\ Len(services) = 3
    /\ Selected = {"budget", "nearby"}
    /\ Len(filteredServices) = 1
    /\ filteredServices[1].price_from <= 500

(* C20: with no price toggle selected, a service is listed iff the query,    *)
(* compared case-insensitively, is a substring of its title, description,    *)
(* location or owner display name; an empty or whitespace-only query lists   *)
(* every service, also one with no joined owner profile.                     *)
C20_TextPredicate ==
    Selected \cap {"budget", "premium"} = {} =>
        /\ \A i \in 1..Len(services) :
              (\E j \in 1..Len(filteredServices) : filteredServices[j] = services[i])
                  <=> TextAccepts(services[i], searchQuery)
        /\ Blank(searchQuery) => filteredServices = services

\* a query in another case than the owner's name lists exactly that owner's
\* service, and the loaded list has a service without a joined owner
C20_Witness ==
    /\ searchQuery = <<"d">>
    /\ Len(filteredServices) = 1
    /\ filteredServices[1].profiles.full_name = Text("D", "x")
    /\ \E i \in 1..Len(services) : ~services[i].profiles.present

\* list `part` is list `whole` with some of its elements left out
IsSubsequence(part, whole) ==
    \E at \in [1..Len(part) -> 1..Len(whole)] :
        /\ \A i \in 1..Len(part) : part[i] = whole[at[i]]
        /\ \A i, j \in 1..Len(part) : i < j => at[i] < at[j]

(* C21: for every query and toggle set the filtered list is a subsequence of *)
(* the loaded service list (same elements, same relative order, none added   *)
(* or duplicated), and with an empty query and no toggles it is the full     *)
(* list unchanged in order.                                                  *)
C21_OrderPreserving ==
    /\ IsSubsequence(filteredServices, services)
    /\ (searchQuery = <<>> /\ selectedFilters = <<>>) => filteredServices = services

\* budget keeps the first and the third service of the loaded list, in order
C21_Witness ==
    /\ Len(services) = 3
    /\ "budget" \in Selected
    /\ filteredServices = <<services[1], services[3]>>

\* the predicate of a price toggle, applied to a list
Narrowed(filterKey, list) ==
    SelectSeq(list, LAMBDA service :
        IF filterKey = "budget" THEN service.price_from <= 500
                                ELSE service.price_from >= 800)

\* filterKey is selected and its chip is pressed again in this step
PressedAgain(filterKey) ==
    /\ filterKey \in Selected
    /\ selectedFilters' = toggleFilter(selectedFilters, filterKey)

-----------------------------------------------------------------------------
(* The tabs of the client's bookings screen *)

ListedUnder(tab, booking) ==
    LET list == IF tab = "upcoming" THEN clientRender.upcoming ELSE clientRender.past
    IN  \E i \in 1..Len(list) : list[i] = booking

ClientList == bookings["c1"]

\* the step is a render of the client's bookings screen
RendersList == clientRender' # clientRender

(* C23: every booking is listed under exactly one of the tabs upcoming and   *)
(* past, at every current time: a completed or cancelled booking is under    *)
(* past regardless of its date, and a pending or confirmed booking is under  *)
(* upcoming iff its event date is not before the current date.               *)
C23_TabOfBooking ==
    [][RendersList =>
          (\A i \in 1..Len(ClientList) :
              LET booking == ClientList[i]
              IN  /\ ListedUnder("upcoming", booking) # ListedUnder("past", booking)
                  /\ booking.status \in {"completed", "cancelled"} =>
                         ListedUnder("past", booking)
                  /\ booking.status \in {"pending", "confirmed"} =>
                         (ListedUnder("upcoming", booking)
                              <=> ~DateBefore(booking.event_date, today)))']_vars

\* what holds of the tabs: a booking is under exactly one, a completed or
\* cancelled one under past, and a pending or confirmed one under upcoming
\* iff midnight UTC of its event date is not before the instant of the render
C23_TabOfBookingByInstant ==
    [][RendersList =>
          (\A i \in 1..Len(ClientList) :
              LET booking == ClientList[i]
                  midnightPassed ==
                      \/ DateBefore(booking.event_date, clientRender.at.date)
                      \/ /\ booking.event_date = clientRender.at.date
                         /\ clientRender.at.ms > 0
              IN  /\ ListedUnder("upcoming", booking) # ListedUnder("past", booking)
                  /\ booking.status \in {"completed", "cancelled"} =>
                         ListedUnder("past", booking)
                  /\ booking.status \in {"pending", "confirmed"} =>
                         (ListedUnder("upcoming", booking) <=> ~midnightPassed))']_vars

-----------------------------------------------------------------------------
(* The references of a booking and the owner of a service *)

RoleOf(u) == profilesTable[u].user_type

ServiceWithId(serviceId) ==
    {servicesTable[i] : i \in {j \in 1..Len(servicesTable) : servicesTable[j].id = serviceId}}

(* C24: in every reachable state of the bookings table each booking's        *)
(* client_id and professional_id reference two distinct profiles whose roles *)
(* are client and professional, and its service_id references a service      *)
(* whose professional_id is the booking's professional_id, for any insert    *)
(* accepted by the schema and its insert policy.                             *)
C24_BookingReferences ==
    \A i \in 1..Len(bookingsTable) :
        LET row == bookingsTable[i]
        IN  /\ row.client_id \in ProfileIds /\ row.professional_id \in ProfileIds
            /\ row.client_id # row.professional_id
            /\ RoleOf(row.client_id) = "client"
            /\ RoleOf(row.professional_id) = "professional"
            /\ \E service \in ServiceWithId(row.service_id) :
                   service.professional_id = row.professional_id

\* what the schema does keep: the three references are to existing rows
C24_ReferencesExist ==
    \A i \in 1..Len(bookingsTable) :
        LET row == bookingsTable[i]
        IN  /\ row.client_id \in ProfileIds /\ row.professional_id \in ProfileIds
            /\ ServiceWithId(row.service_id) # {}

\* the services a read by user uid returns
ReadableBy(uid) == {row.id : row \in {SelectServices(uid)[i] : i \in 1..Len(SelectServices(uid))}}

StoredServices == {servicesTable[i] : i \in 1..Len(servicesTable)}

(* C25: a service row is created, updated or deleted only by the user whose  *)
(* id is the row's professional_id: every insert, update and delete on       *)
(* services by any other user is refused by the access policies, while reads *)
(* are allowed to everyone.  An update that hands a row to another user is  *)
(* refused as well, so a row's professional_id stays the user who made it.   *)
C25_OwnerOnly ==
    \A uid \in Users :
        /\ \A owner \in NamedUsers \ {uid}, price \in ServicePrices :
              InsertServices(servicesTable, uid, NewService(servicesTable, owner, price))
                  = servicesTable
        /\ \A row \in StoredServices, patch \in ServicePatches :
              /\ row.professional_id # uid =>
                    /\ UpdateServices(servicesTable, uid, row.id, patch[1], patch[2])
                           = servicesTable
                    /\ DeleteServices(servicesTable, uid, row.id) = servicesTable
              /\ (patch[1] = "professional_id" /\ patch[2] # row.professional_id) =>
                    UpdateServices(servicesTable, uid, row.id, patch[1], patch[2])
                        = servicesTable
        /\ ReadableBy(uid) = {row.id : row \in StoredServices}

\* a service inserted by its owner next to another owner's service whose
\* price its owner has changed
C25_Witness ==
    /\ \E row \in StoredServices : row.id > NumServices /\ row.professional_id = "cliX"
    /\ \E row \in StoredServices : row.id = 1 /\ row.price_from = 900
    /\ \A row \in StoredServices : row.id # 2

-----------------------------------------------------------------------------
(* The professional's list against the store *)

\* the rows the store would return to the professional's loadBookings now
StoredFor(s) ==
    SelectBookings(UserOf(s), "professional_id", UserOf(s), "true", "client_id")

\* session s has mounted, nothing it awaits is in flight, none of its requests failed
Settled(s) ==
    /\ profile[s] # NoProfile
    /\ \A r \in net : r.sess # s
    /\ consoleErrors[s] = 0

(* C26: once every in-flight request of a professional bookings screen has   *)
(* completed and no other session writes, the in-memory bookings list equals *)
(* the store's current rows for that professional, also when a               *)
(* pull-to-refresh fetch and the re-fetch after a status update overlap and  *)
(* their responses arrive in the opposite order to which they were issued.   *)
C26_ListMatchesStore == Settled("p1") => bookings["p1"] = StoredFor("p1")

-----------------------------------------------------------------------------
(* The photos of the professional profile screen *)

StoredPhotoIds == {row.id : row \in photosTable}

\* the photos of the start that are gone from the table and from the bucket
DeletedPhotoIds ==
    {id \in InitialPhotoIds :
        /\ id \notin StoredPhotoIds
        /\ FileName("proA", id - 10) \notin bucket}

ShownPhotoIds == {photos[i].id : i \in 1..Len(photos)}

(* C27: after two photo deletions have both succeeded, neither deleted photo *)
(* is in the in-memory photos list, for every interleaving of the two        *)
(* confirmations, their storage/database requests and an intervening         *)
(* fetchPhotos.                                                              *)
C27_DeletedNotShown ==
    (photoCalls = {} /\ PhotoFaults = 0 /\ Cardinality(DeletedPhotoIds) >= 2) =>
        ShownPhotoIds \cap DeletedPhotoIds = {}

(* C28: whenever no photo upload or deletion is in progress, every           *)
(* professional_photos row references an object that exists in the bucket    *)
(* and every object stored by uploadPhoto has a row, including after a run   *)
(* in which the second step (row insert, row delete) failed after the first  *)
(* step (storage upload, storage removal) succeeded.                         *)
C28_RowsAndObjects ==
    (\A c \in photoCalls : c.fn = "fetchPhotos") =>
        /\ \A row \in photosTable : row.photo_url.name \in bucket
        /\ \A name \in bucket : \E row \in photosTable : row.photo_url.name = name

\* without a failed call the rows and the objects do agree
C28_RowsAndObjectsNoFailure ==
    ((\A c \in photoCalls : c.fn = "fetchPhotos") /\ PhotoFaults = 0) =>
        /\ \A row \in photosTable : row.photo_url.name \in bucket
        /\ \A name \in bucket : \E row \in photosTable : row.photo_url.name = name

-----------------------------------------------------------------------------
(* The figures of the analytics screen against each other *)

SumOfBuckets(data) == SumOver(1..Len(data.monthlyRevenue), data.monthlyRevenue)

SumOfTopServices(data) ==
    SumOver(1..Len(data.topServices),
            [i \in 1..Len(data.topServices) |-> data.topServices[i].revenue])

(* C29: for every booking list with non-negative prices, the sum of the six  *)
(* monthlyRevenue buckets is at most totalRevenue, and the sum of revenue    *)
(* over topServices is at most totalRevenue and equals it whenever the       *)
(* completed bookings have at most 5 distinct service titles.                *)
C29_SumsWithinTotal ==
    [][\A r \in Loaded :
          /\ SumOfBuckets(analyticsData') <= analyticsData'.totalRevenue
          /\ SumOfTopServices(analyticsData') <= analyticsData'.totalRevenue
          /\ Cardinality(GroupTitles(r.data)) <= 5 =>
                SumOfTopServices(analyticsData') = analyticsData'.totalRevenue]_vars

\* the same, the equality for the lists in which no title names an inherited
\* member
C29_SumsWithinTotalOwnTitles ==
    [][\A r \in Loaded :
          /\ SumOfBuckets(analyticsData') <= analyticsData'.totalRevenue
          /\ SumOfTopServices(analyticsData') <= analyticsData'.totalRevenue
          /\ (/\ Cardinality(GroupTitles(r.data)) <= 5
              /\ GroupTitles(r.data) \cap ObjectPrototypeKeys = {}) =>
                SumOfTopServices(analyticsData') = analyticsData'.totalRevenue]_vars

-----------------------------------------------------------------------------
(* The month labels of the revenue chart *)

\* the step is a render of the chart
RendersChart == chartLabels' # chartLabels

\* the completed bookings whose price is in bucket i; row k costs 100 * 2^(k-1),
\* so the sum of a bucket tells which rows it holds
CountedIn(i) ==
    {k \in CompletedAt(bookingsTable) :
        (analyticsData.monthlyRevenue[i] \div bookingsTable[k].total_price) % 2 = 1}

(* C30: for every completed booking counted in monthlyRevenue bucket i, the  *)
(* month label displayed under bucket i (getMonthName(i), computed from the  *)
(* date at render time) is the booking's event month, also when the calendar *)
(* month changes between the load that filled the buckets and a later        *)
(* render.                                                                   *)
C30_LabelIsEventMonth ==
    [][RendersChart =>
          \A i \in 1..Len(chartLabels') : \A k \in CountedIn(i) :
              chartLabels'[i] = bookingsTable[k].event_date.month]_vars

\* what holds: the labels are right for a device that is not behind UTC and a
\* render in the month of the load (here: the month has not turned)
C30_LabelIsEventMonthSameMonth ==
    [][(RendersChart /\ ~tzWest /\ today.day # 1) =>
          \A i \in 1..Len(chartLabels') : \A k \in CountedIn(i) :
              chartLabels'[i] = bookingsTable[k].event_date.month]_vars

====
